---- MODULE Spec2Model ----
(***************************************************************************)
(* BarGen: the DataMatrix and GS1 rotation controllers.                    *)
(*                                                                         *)
(* State.dm and State.gs1 are the two session objects; the double-scan     *)
(* checkboxes, the process-wide activity log, the demo GTIN counter, the   *)
(* window's live interval timers and the displayed codes are the rest of   *)
(* the state. Every handler is a function from the whole state (a record,  *)
(* "world") to the whole state, so that a handler calling another one is   *)
(* function composition, as in the JavaScript.                             *)
(*                                                                         *)
(* Time is counted in units of 0.05 s: a timer period (100 ms) is 2 units, *)
(* the expiry threshold (0.05 s) is 1 unit.                                *)
(***************************************************************************)
EXTENDS Integers, Sequences, FiniteSets, TLC

\* ------------------------------------------------------------------ bounds
\* Largest folder (number of items) startRotation is given, and the number
\* of items added to a library in one behaviour.
MaxItems == 2
\* Entries the process-wide activity log takes before generation stops.
MaxLog == 4
\* Largest value the GS1 carousel's ever-growing rotationIndex takes.
MaxGs1Index == 3

\* ------------------------------------------------------- program constants
\* dm.remaining -= 0.1 (in units of 0.05 s).
TickDecrement == 2
\* if (dm.remaining <= 0.05) (in units of 0.05 s).
ExpiryThreshold == 1
\* Config.DEMO_GTINS.length
NumDemoGtins == 2
\* State.dm.timerValue and State.gs1.timerValue as State sets them at load
\* (in units of 0.05 s).
DefaultInterval == 4

VARIABLES
    dm,         \* State.dm: the DataMatrix session object
    gs1,        \* State.gs1: the GS1 carousel session object
    checked,    \* the four double-scan checkboxes: id -> checked
    activity,   \* State.addToHistory: entries logged so far, by type
    demoIndex,  \* position of State.getNextDemoGtin in the demo list
    timers,     \* live window.setInterval timers, by owning controller
    screen,     \* what each tab displays
    lastOp,     \* history variable: the name of the handler that ran last
    nav,        \* history variable: the manualNext() calls since startRotation,
                \* and State.dm as it was before the timer was last paused
                \* (by the pause button or by the page being hidden)
    tab,        \* the tab whose controller this behaviour exercises
    library,    \* the selected folder of the DataMatrix library and of the GS1
                \* library, and the number of items created so far
    renderer,   \* bwip-js and JsBarcode: whether they throw when called, and
                \* whether the last drawing of the DataMatrix tab failed
    enc         \* the last call of an encoder of generators.js: its arguments
                \* and what it returned

vars == <<dm, gs1, checked, activity, demoIndex, timers, screen, lastOp, nav, tab,
          library, renderer, enc>>

\* ----------------------------------------------------------------- values
None == <<>>
Some(x) == <<x>>

\* A JavaScript number as parseFloat returns it: NaN or a value.
NaN == [nan |-> TRUE, val |-> 0]
JsNum(n) == [nan |-> FALSE, val |-> n]

\* The a % b of JavaScript (the sign of the dividend), b > 0.
JsRem(a, b) == IF a >= 0 THEN a % b ELSE -((-a) % b)

RECURSIVE SumSeq(_)
SumSeq(s) == IF s = <<>> THEN 0 ELSE Head(s) + SumSeq(Tail(s))

\* EAN-13 check digit of 12 digits: weights 1,3,1,3,... from the left.
CalcControlEAN13(d12) ==
    LET weighted == [i \in 1..Len(d12) |-> IF i % 2 = 1 THEN d12[i] ELSE 3 * d12[i]]
    IN (10 - (SumSeq(weighted) % 10)) % 10

\* The i-th GTIN of the catalog: 13 digits with a correct check digit.
Gtin(i) ==
    LET d12 == <<4, 8, 1, 0, 0, 9, 9, 0, 0, (i \div 10) % 10, 3, i % 10>>
    IN Append(d12, CalcControlEAN13(d12))

\* Config.DEMO_GTINS, indexed from 0.
DEMO_GTINS ==
    [k \in 0..(NumDemoGtins - 1) |->
        LET d12 == <<4, 6, 0, 0, 0, 0, 0, 0, 0, 0, 0, k % 10>>
        IN Append(d12, CalcControlEAN13(d12))]

DoubleScanIds == <<"doubleScanSameDM", "doubleScanDmEan", "doubleScanSameEan", "doubleScanDifferentDM">>
CheckboxIds == {DoubleScanIds[i] : i \in 1..Len(DoubleScanIds)}

\* The checkboxes the user clicks. doubleScanDmEan is left alone: it shows the
\* primary code as sameDM does and the secondary code as sameEan does.
ClickedIds == CheckboxIds \ {"doubleScanDmEan"}

TemplateIds == {"type1", "type2"}
DefaultTemplate == "type1"
TemplateName(t) == IF t = "type1" THEN "Type 1" ELSE "Type 2"

\* Config.TEMPLATES[t].generate(barcode): AI 01 with the GTIN padded to 14
\* digits, followed by the template's serial part. The serial is the number
\* of this generation, so that generating twice never gives the same payload.
TemplateGenerate(t, barcode, serial) ==
    [kind |-> "DM", ai01 |-> <<0>> \o barcode, template |-> t, serial |-> serial]

\* Item i of the DataMatrix library.
DmItem(i, isActive) ==
    [barcode |-> Gtin(i), template |-> IF i % 2 = 1 THEN "type1" ELSE "type2", active |-> isActive]

\* The folders State.getDmFolder() can return: none selected, or a folder
\* of MaxItems items with any active flags.
NoFolder == [selected |-> FALSE, items |-> <<>>]
DmFolders ==
    {NoFolder} \cup
    {[selected |-> TRUE, items |-> [i \in 1..MaxItems |-> DmItem(i, a[i])]] :
        a \in [1..MaxItems -> BOOLEAN]}

\* Item i of the GS1 library (its stored code and the GoodsId it was made of).
Gs1Item(i, isActive) ==
    [code |-> [kind |-> "GS1", goodsId |-> i], goodsId |-> i, active |-> isActive]

Gs1Folders ==
    {NoFolder} \cup
    {[selected |-> TRUE, items |-> [i \in 1..MaxItems |-> Gs1Item(i, a[i])]] :
        a \in [1..MaxItems -> BOOLEAN]}

\* folder.items.filter(function(x) { return x.active; })
ActiveItems(folder) == SelectSeq(folder.items, LAMBDA x : x.active)

\* The intervals the interval buttons and the custom field hand to setInterval.
Intervals == {2, DefaultInterval}
IntervalInputs == {NaN, JsNum(-2), JsNum(0)} \cup {JsNum(v) : v \in Intervals}

\* The whole state as one value.
World ==
    [dm |-> dm, gs1 |-> gs1, checked |-> checked, activity |-> activity,
     demoIndex |-> demoIndex, timers |-> timers, screen |-> screen,
     library |-> library, renderer |-> renderer]

Logged(w) == w.activity.DM + w.activity.GS1

\* ---------------------------------------------------------- generators.js
\* State.getNextDemoGtin(): round robin over the demo list.
GetNextDemoGtin(w) ==
    [w |-> [w EXCEPT !.demoIndex = (@ + 1) % NumDemoGtins],
     gtin |-> DEMO_GTINS[w.demoIndex]]

\* A faulty variant of generateDM: the payload is logged twice.
GenerateDMLoggingTwice(w, barcode, templateId) ==
    LET demo == GetNextDemoGtin(w)
        w1 == IF barcode = None THEN demo.w ELSE w
        usedBarcode == IF barcode = None THEN demo.gtin ELSE barcode[1]
        code == TemplateGenerate(templateId, usedBarcode, w.activity.DM + 1)
    IN [w |-> [w1 EXCEPT !.activity.DM = @ + 2],
        result |-> [code |-> code, templateName |-> TemplateName(templateId),
                    barcode |-> usedBarcode]]

\* generateDM(barcode, templateId); barcode = None when the caller gives none.
GenerateDM(w, barcode, templateId) ==
    LET demo == GetNextDemoGtin(w)
        w1 == IF barcode = None THEN demo.w ELSE w
        usedBarcode == IF barcode = None THEN demo.gtin ELSE barcode[1]
        code == TemplateGenerate(templateId, usedBarcode, w.activity.DM + 1)
    IN [w |-> [w1 EXCEPT !.activity.DM = @ + 1],
        result |-> [code |-> code, templateName |-> TemplateName(templateId),
                    barcode |-> usedBarcode]]

\* extractEAN13FromDM(dmCode): the 14 digits after AI 01 without the first,
\* the check digit recomputed; null when there are no 14 digits.
ExtractEAN13FromDM(dmCode) ==
    IF Len(dmCode.ai01) # 14 THEN [kind |-> "null"]
    ELSE LET ean12 == SubSeq(dmCode.ai01, 2, 13)
         IN [kind |-> "EAN13", digits |-> Append(ean12, CalcControlEAN13(ean12))]

\* ------------------------------------------------------- dm.controller.js
\* getActiveDoubleScanMode(): the first checked checkbox, in this order.
GetActiveDoubleScanMode(chk) ==
    IF chk["doubleScanSameDM"] THEN "sameDM"
    ELSE IF chk["doubleScanDmEan"] THEN "dmEan"
    ELSE IF chk["doubleScanSameEan"] THEN "sameEan"
    ELSE IF chk["doubleScanDifferentDM"] THEN "differentDM"
    ELSE "none"

\* A faulty variant of LastIndex: the cursor one past the new entry.
LastIndexPastEnd(codes) == Len(codes)

\* dm.codeHistoryIndex = dm.generatedCodes.length - 1, after the push.
LastIndex(codes) == Len(codes) - 1

\* What the DataMatrix tab shows for a primary code and a secondary one.
DmDisplay(code, displayAsEan, secondary, barcode) ==
    [code |-> code,
     displayAsEan |-> displayAsEan,
     ean13Code |-> IF displayAsEan THEN ExtractEAN13FromDM(code) ELSE [kind |-> "null"],
     secondary |-> secondary,
     barcode |-> barcode]

\* A faulty variant of the drawing: when the library throws, the catch block
\* also clears the rotation timer.
RenderStoppingTimer(w, shown) ==
    IF w.renderer.throws
    THEN [w EXCEPT !.screen.dm = shown,
                   !.renderer.failed = TRUE,
                   !.timers.dm = IF w.dm.timerInterval THEN @ - 1 ELSE @,
                   !.dm.timerInterval = FALSE]
    ELSE [w EXCEPT !.screen.dm = shown, !.renderer.failed = FALSE]

\* renderPrimaryCode, renderSecondaryCode and updateCodeText: the texts are
\* set, and renderDM / renderBarcode catch what the drawing library throws,
\* leaving an error notice in place of the picture.
Render(w, shown) ==
    [w EXCEPT !.screen.dm = shown, !.renderer.failed = w.renderer.throws]

\* A faulty variant of the index of the second code's item: the item of the
\* primary code again.
NextItemIndexSame(rotationIndex, n) == (rotationIndex - 1 + n) % n

\* differentDM: the index of the item whose barcode the second code gets,
\* rotationIndex being advanced already.
NextItemIndex(rotationIndex, n) == rotationIndex % n

\* A faulty variant of the push: the newest entry is overwritten.
PushCodeOverLast(codes, entry) ==
    IF codes = <<>> THEN <<entry>> ELSE [codes EXCEPT ![Len(codes)] = entry]

\* dm.generatedCodes.push(entry)
PushCode(codes, entry) == Append(codes, entry)

\* A faulty variant of the advance of the generation cursor: no wrap.
AdvanceIndexUnwrapped(rotationIndex, n) == rotationIndex + 1

\* dm.rotationIndex = (dm.rotationIndex + 1) % dm.rotationList.length
AdvanceIndex(rotationIndex, n) == (rotationIndex + 1) % n

\* generateAndDisplay(): the next item of the rotation (or a demo code), its
\* secondary code, the new history entry, the cursor on it, and the render.
GenerateAndDisplay(w) ==
    LET d == w.dm
        doubleScanMode == GetActiveDoubleScanMode(w.checked)
        rotation == d.isRotating /\ Len(d.rotationList) > 0
        item == d.rotationList[d.rotationIndex + 1]
        g1 == IF rotation
              THEN GenerateDM(w, Some(item.barcode), item.template)
              ELSE GenerateDM(w, None, d.selectedTemplate)
        result == g1.result
        currentRotationIdx == d.rotationIndex
        w1 == IF rotation
              THEN [g1.w EXCEPT !.dm.rotationIndex =
                                    AdvanceIndex(d.rotationIndex, Len(d.rotationList))]
              ELSE g1.w
        \* case 'differentDM'
        nextDemo == GetNextDemoGtin(w1)
        w2 == IF d.isRotating THEN w1 ELSE nextDemo.w
        n == Len(d.rotationList)
        nextBarcode == IF d.isRotating
                       THEN d.rotationList[NextItemIndex(w1.dm.rotationIndex, n) + 1].barcode
                       ELSE nextDemo.gtin
        templateId == IF d.isRotating
                      THEN d.rotationList[((w1.dm.rotationIndex - 1 + n) % n) + 1].template
                      ELSE d.selectedTemplate
        g2 == GenerateDM(w2, Some(nextBarcode), templateId)
        ean13 == ExtractEAN13FromDM(result.code)
        secondaryResult ==
            CASE doubleScanMode = "sameDM" ->
                    Some([type |-> "DM", code |-> result.code,
                          barcode |-> IF rotation THEN Some(item.barcode) ELSE None])
              [] doubleScanMode = "dmEan" -> Some([type |-> "EAN13", code |-> ean13])
              [] doubleScanMode = "sameEan" -> Some([type |-> "EAN13", code |-> ean13])
              [] doubleScanMode = "differentDM" ->
                    Some([type |-> "DM", code |-> g2.result.code,
                          barcode |-> Some(nextBarcode)])
              [] OTHER -> None
        displayAsEan == doubleScanMode = "sameEan"
        w3 == IF doubleScanMode = "differentDM" THEN g2.w ELSE w1
        shownBarcode == IF rotation THEN item.barcode ELSE result.barcode
        entry == [code |-> result.code,
                  barcode |-> shownBarcode,
                  templateName |-> result.templateName,
                  rotationIdx |-> IF rotation THEN currentRotationIdx
                                  ELSE Len(d.generatedCodes),
                  doubleScanMode |-> doubleScanMode,
                  primaryDisplayAsEan |-> displayAsEan,
                  secondaryCode |-> secondaryResult]
        codes == PushCode(d.generatedCodes, entry)
    IN Render([w3 EXCEPT !.dm.generatedCodes = codes,
                         !.dm.codeHistoryIndex = LastIndex(codes)],
              DmDisplay(result.code, displayAsEan, secondaryResult, shownBarcode))

\* A faulty variant of displayFromCache: it generates instead of replaying.
DisplayFromCacheRegenerating(w, index) == GenerateAndDisplay(w)

\* A faulty variant of displayFromCache: the primary code is always drawn as a
\* DataMatrix and the secondary code follows the strategy selected now.
DisplayFromCacheAsDataMatrix(w, index) ==
    IF index < 0 \/ index >= Len(w.dm.generatedCodes) THEN w
    ELSE LET cached == w.dm.generatedCodes[index + 1]
         IN Render([w EXCEPT !.dm.codeHistoryIndex = index],
                   DmDisplay(cached.code, FALSE,
                             IF GetActiveDoubleScanMode(w.checked) # "none"
                             THEN cached.secondaryCode ELSE None,
                             cached.barcode))

\* displayFromCache(index): nothing for an index outside the history;
\* otherwise the cursor moves to the entry and the entry is shown as recorded.
DisplayFromCache(w, index) ==
    IF index < 0 \/ index >= Len(w.dm.generatedCodes) THEN w
    ELSE LET cached == w.dm.generatedCodes[index + 1]
         IN Render([w EXCEPT !.dm.codeHistoryIndex = index],
                   DmDisplay(cached.code, cached.primaryDisplayAsEan,
                             IF cached.doubleScanMode # "none"
                                /\ cached.secondaryCode # None
                             THEN cached.secondaryCode ELSE None,
                             cached.barcode))

\* A faulty variant of stopTimer: the handle is dropped, the interval is not
\* cleared.
StopTimerLeavingInterval(w) == [w EXCEPT !.dm.timerInterval = FALSE]

\* stopTimer(): clear the interval the handle names, if any.
StopTimer(w) ==
    IF w.dm.timerInterval
    THEN [w EXCEPT !.timers.dm = @ - 1, !.dm.timerInterval = FALSE]
    ELSE w

\* A faulty variant of startTimer: it generates a new code before it arms the
\* interval.
StartTimerGenerating(w) ==
    LET w1 == StopTimer(GenerateAndDisplay(w))
    IN [w1 EXCEPT !.dm.remaining = w1.dm.timerValue,
                  !.timers.dm = @ + 1,
                  !.dm.timerInterval = TRUE]

\* A faulty variant of startTimer: the history cursor stays on the older entry.
StartTimerKeepingCursor(w) ==
    LET w1 == StopTimer(w)
    IN [w1 EXCEPT !.dm.remaining = w1.dm.timerValue,
                  !.timers.dm = @ + 1,
                  !.dm.timerInterval = TRUE]

\* startTimer(): stop the old timer, jump to the end of the history when an
\* older entry is viewed, reset the countdown and arm a new interval.
StartTimer(w) ==
    LET w1 == StopTimer(w)
        len == Len(w1.dm.generatedCodes)
        w2 == IF len > 0 /\ w1.dm.codeHistoryIndex < len - 1
              THEN DisplayFromCache([w1 EXCEPT !.dm.codeHistoryIndex = len - 1], len - 1)
              ELSE w1
    IN [w2 EXCEPT !.dm.remaining = w2.dm.timerValue,
                  !.timers.dm = @ + 1,
                  !.dm.timerInterval = TRUE]

\* A faulty variant of the expiry test: it fires one tick early.
TimerExpiredEarly(remaining) == remaining <= ExpiryThreshold + TickDecrement

\* dm.remaining <= 0.05
TimerExpired(remaining) == remaining <= ExpiryThreshold

\* A faulty variant of the callback: at expiry it restarts the countdown
\* without generating.
TimerCallbackSkipping(w) ==
    LET w1 == [w EXCEPT !.dm.remaining = @ - TickDecrement]
    IN IF TimerExpired(w1.dm.remaining)
       THEN [w1 EXCEPT !.dm.remaining = w1.dm.timerValue]
       ELSE w1

\* The callback of the interval armed by startTimer().
TimerCallback(w) ==
    LET w1 == [w EXCEPT !.dm.remaining = @ - TickDecrement]
    IN IF TimerExpired(w1.dm.remaining)
       THEN LET w2 == GenerateAndDisplay(w1)
            IN [w2 EXCEPT !.dm.remaining = w2.dm.timerValue]
       ELSE w1

\* A faulty variant of the guard of setInterval: only NaN is rejected.
RejectedIntervalNaNOnly(value) == value.nan

\* isNaN(value) || value <= 0
RejectedInterval(value) == value.nan \/ value.val <= 0

\* setInterval(value)
SetInterval(w, value) ==
    IF RejectedInterval(value) THEN w
    ELSE StartTimer([w EXCEPT !.dm.timerValue = value.val,
                              !.dm.remaining = value.val])

\* A faulty variant of the guards of startRotation: the active items are not
\* counted.
StartRotationRejectedNoFolderOnly(folder) == ~folder.selected

\* startRotation() on the folder State.getDmFolder() returns.
StartRotationRejected(folder) ==
    ~folder.selected \/ Len(ActiveItems(folder)) = 0

\* A faulty variant of startRotation: the history of the previous session is
\* kept.
StartRotationKeepingHistory(w, folder) ==
    IF StartRotationRejected(folder) THEN w
    ELSE LET w1 == [w EXCEPT !.dm.rotationList = ActiveItems(folder),
                             !.dm.rotationIndex = 0,
                             !.dm.isRotating = TRUE]
         IN StartTimer(GenerateAndDisplay(w1))

\* startRotation(): snapshot the active items, reset the session, show the
\* first code and arm the timer.
StartRotation(w, folder) ==
    IF StartRotationRejected(folder) THEN w
    ELSE LET w1 == [w EXCEPT !.dm.rotationList = ActiveItems(folder),
                             !.dm.rotationIndex = 0,
                             !.dm.isRotating = TRUE,
                             !.dm.generatedCodes = <<>>,
                             !.dm.codeHistoryIndex = -1]
         IN StartTimer(GenerateAndDisplay(w1))

\* A faulty variant of stopRotation: the history is not discarded.
StopRotationKeepingHistory(w) ==
    LET w1 == StopTimer([w EXCEPT !.dm.isRotating = FALSE])
        w2 == [w1 EXCEPT !.dm.rotationList = <<>>,
                         !.dm.rotationIndex = 0]
    IN GenerateAndDisplay(w2)

\* stopRotation(): reset the session, then show a fresh demo code.
StopRotation(w) ==
    LET w1 == StopTimer([w EXCEPT !.dm.isRotating = FALSE])
        w2 == [w1 EXCEPT !.dm.rotationList = <<>>,
                         !.dm.rotationIndex = 0,
                         !.dm.generatedCodes = <<>>,
                         !.dm.codeHistoryIndex = -1]
    IN GenerateAndDisplay(w2)

\* Object.keys(uniqueIndices).length: distinct rotation indices in the history.
UniqueCount(codes) == Cardinality({codes[i].rotationIdx : i \in 1..Len(codes)})

\* A faulty variant of the replay index of manualNext: the cursor stays.
NextReplayIndexStuck(cursor, listLen) == JsRem(cursor, listLen)

\* var nextIndex = (dm.codeHistoryIndex + 1) % dm.rotationList.length
NextReplayIndex(cursor, listLen) == JsRem(cursor + 1, listLen)

\* manualNext()
ManualNext(w) ==
    LET d == w.dm
        n == Len(d.rotationList)
        len == Len(d.generatedCodes)
    IN IF n > 0 /\ len >= n
       THEN DisplayFromCache(w, NextReplayIndex(d.codeHistoryIndex, n))
       ELSE IF len > 0 /\ d.codeHistoryIndex < len - 1
       THEN DisplayFromCache(w, d.codeHistoryIndex + 1)
       ELSE IF n > 0 /\ UniqueCount(d.generatedCodes) >= n
       THEN DisplayFromCache(w, 0)
       ELSE GenerateAndDisplay(w)

\* prevIndex = dm.codeHistoryIndex - 1; if (prevIndex < 0) prevIndex = length - 1
PrevReplayIndex(cursor, listLen) ==
    IF cursor - 1 < 0 THEN listLen - 1 ELSE cursor - 1

\* manualPrev()
ManualPrev(w) ==
    LET d == w.dm
        n == Len(d.rotationList)
        len == Len(d.generatedCodes)
    IN IF n > 0 /\ len >= n
       THEN DisplayFromCache(w, PrevReplayIndex(d.codeHistoryIndex, n))
       ELSE IF len > 0 /\ d.codeHistoryIndex > 0
       THEN DisplayFromCache(w, d.codeHistoryIndex - 1)
       ELSE w

\* A faulty variant of the onchange handler: the other checkboxes stay as
\* they are.
DoubleScanChangeKeepingOthers(w, id) ==
    GenerateAndDisplay([w EXCEPT !.checked[id] = ~@])

\* A faulty variant of the onchange handler: it generates twice.
DoubleScanChangeGeneratingTwice(w, id) ==
    LET nowChecked == ~w.checked[id]
        chk == [c \in CheckboxIds |->
                    IF c = id THEN nowChecked
                    ELSE IF nowChecked THEN FALSE ELSE w.checked[c]]
    IN GenerateAndDisplay(GenerateAndDisplay([w EXCEPT !.checked = chk]))

\* The onchange handler of checkbox id, after the browser flipped it.
DoubleScanChange(w, id) ==
    LET nowChecked == ~w.checked[id]
        chk == [c \in CheckboxIds |->
                    IF c = id THEN nowChecked
                    ELSE IF nowChecked THEN FALSE ELSE w.checked[c]]
    IN GenerateAndDisplay([w EXCEPT !.checked = chk])

\* document.onvisibilitychange with document.hidden.
VisibilityHidden(w) == StopTimer(w)

\* document.onvisibilitychange with the page visible again; current is
\* Controllers.Tab.current.
VisibilityVisible(w, current) ==
    IF current = "datamatrix" THEN StartTimer(GenerateAndDisplay(w)) ELSE w

\* ------------------------------------------------------ gs1.controller.js
\* What the GS1 tab shows for an item: its code and the counter "k/n".
Gs1Display(item, index, total) ==
    Some([code |-> item.code, counter |-> index, total |-> total])

\* displayCode(): show the item at rotationIndex (modulo the list), advance
\* the index and log the code; nothing on an empty list.
Gs1DisplayCode(w) ==
    LET items == w.gs1.rotationItems
        n == Len(items)
        k == JsRem(w.gs1.rotationIndex, n)
    IN IF n = 0 THEN w
       ELSE [w EXCEPT !.screen.gs1 = Gs1Display(items[k + 1], k + 1, n),
                      !.gs1.rotationIndex = @ + 1,
                      !.activity.GS1 = @ + 1]

\* displayCodeManual(): as displayCode(), without the log entry.
Gs1DisplayCodeManual(w) ==
    LET items == w.gs1.rotationItems
        n == Len(items)
        k == JsRem(w.gs1.rotationIndex, n)
    IN IF n = 0 THEN w
       ELSE [w EXCEPT !.screen.gs1 = Gs1Display(items[k + 1], k + 1, n),
                      !.gs1.rotationIndex = @ + 1]

\* A faulty variant of the GS1 stopTimer: it clears the DataMatrix interval
\* as well.
Gs1StopTimerClearingDm(w) ==
    LET w1 == IF w.gs1.timerInterval
              THEN [w EXCEPT !.timers.gs1 = @ - 1, !.gs1.timerInterval = FALSE]
              ELSE w
    IN IF w1.dm.timerInterval
       THEN [w1 EXCEPT !.timers.dm = @ - 1, !.dm.timerInterval = FALSE]
       ELSE w1

\* stopTimer()
Gs1StopTimer(w) ==
    IF w.gs1.timerInterval
    THEN [w EXCEPT !.timers.gs1 = @ - 1, !.gs1.timerInterval = FALSE]
    ELSE w

\* startTimer()
Gs1StartTimer(w) ==
    LET w1 == Gs1StopTimer(w)
    IN [w1 EXCEPT !.gs1.remaining = w1.gs1.timerValue,
                  !.timers.gs1 = @ + 1,
                  !.gs1.timerInterval = TRUE]

\* The callback of the interval armed by startTimer().
Gs1TimerCallback(w) ==
    LET w1 == [w EXCEPT !.gs1.remaining = @ - TickDecrement]
    IN IF TimerExpired(w1.gs1.remaining)
       THEN LET w2 == Gs1DisplayCode(w1)
            IN [w2 EXCEPT !.gs1.remaining = w2.gs1.timerValue]
       ELSE w1

\* setInterval(value)
Gs1SetInterval(w, value) ==
    IF RejectedInterval(value) THEN w
    ELSE LET w1 == [w EXCEPT !.gs1.timerValue = value.val]
         IN IF w1.gs1.isRotating THEN Gs1StartTimer(w1) ELSE w1

\* startRotation() on the folder State.getGs1Folder() returns.
Gs1StartRotation(w, folder) ==
    IF StartRotationRejected(folder) THEN w
    ELSE LET w1 == [w EXCEPT !.gs1.rotationItems = ActiveItems(folder),
                             !.gs1.rotationIndex = 0,
                             !.gs1.isRotating = TRUE]
         IN Gs1StartTimer(Gs1DisplayCode(w1))

\* A faulty variant of the GS1 stopRotation: the items are discarded.
Gs1StopRotationDiscarding(w) ==
    Gs1StopTimer([w EXCEPT !.gs1.isRotating = FALSE,
                           !.gs1.rotationItems = <<>>,
                           !.gs1.rotationIndex = 0])

\* stopRotation(): the flag and the timer; the items and the index stay.
Gs1StopRotation(w) ==
    Gs1StopTimer([w EXCEPT !.gs1.isRotating = FALSE])

\* manualNext()
Gs1ManualNext(w) ==
    IF Len(w.gs1.rotationItems) > 0 THEN Gs1DisplayCodeManual(w) ELSE w

\* A faulty variant of the index manualPrev() goes back to: one step back
\* from the index that is already one ahead.
Gs1PrevIndexOneBack(index, len) ==
    LET r == JsRem(index - 1 + len, len)
    IN IF r < 0 THEN len - 1 ELSE r

\* State.gs1.rotationIndex = (State.gs1.rotationIndex - 2 + len) % len, and
\* len - 1 when that is negative.
Gs1PrevIndex(index, len) ==
    LET r == JsRem(index - 2 + len, len)
    IN IF r < 0 THEN len - 1 ELSE r

\* manualPrev()
Gs1ManualPrev(w) ==
    LET len == Len(w.gs1.rotationItems)
    IN IF len > 0
       THEN Gs1DisplayCodeManual(
                [w EXCEPT !.gs1.rotationIndex = Gs1PrevIndex(@, len)])
       ELSE w

\* ------------------------------------------------------- the library folders
\* The items of a folder and of a session list are the same objects: a write
\* to item.active through the folder is seen through the session list too.
\* Objects are told apart by item.id.
ItemIds(items) == {items[k].id : k \in DOMAIN items}

SetActive(items, ids, flag) ==
    [k \in DOMAIN items |->
        IF items[k].id \in ids THEN [items[k] EXCEPT !.active = flag] ELSE items[k]]

\* The lists of GoodsIds the form hands to addItems (one variation each):
\* none, or one GoodsId.
GoodsIdLists == {<<>>, <<1>>, <<2>>}

\* The item addItems() makes of the n-th GoodsId of the form.
Gs1NewItem(id, goodsId) ==
    [id |-> id, code |-> [kind |-> "GS1", goodsId |-> goodsId],
     goodsId |-> goodsId, active |-> TRUE]

\* addItems() with the folder name left blank: nothing without a GoodsId;
\* otherwise the new items, all active, go to the end of the selected folder,
\* or into a new folder that becomes the selected one.
Gs1AddItems(w, goodsIdList) ==
    IF Len(goodsIdList) = 0 THEN w
    ELSE LET items == [k \in 1..Len(goodsIdList) |->
                          Gs1NewItem(w.library.created + k, goodsIdList[k])]
             folder == IF w.library.gs1.selected THEN w.library.gs1
                       ELSE [selected |-> TRUE, items |-> <<>>]
         IN [w EXCEPT !.library.gs1 = [folder EXCEPT !.items = @ \o items],
                      !.library.created = @ + Len(goodsIdList)]

\* selectAll() and deselectAll(): item.active of every item of the folder.
Gs1SetAll(w, flag) ==
    LET folder == w.library.gs1
        ids == ItemIds(folder.items)
    IN IF ~folder.selected THEN w
       ELSE [w EXCEPT !.library.gs1.items = SetActive(@, ids, flag),
                      !.gs1.rotationItems = SetActive(@, ids, flag)]

Gs1SelectAll(w) == Gs1SetAll(w, TRUE)

Gs1DeselectAll(w) == Gs1SetAll(w, FALSE)

\* A faulty variant of clearSelected: the items are taken out of the running
\* session too.
Gs1ClearSelectedFromSession(w, confirmed) ==
    LET folder == w.library.gs1
        gone == {folder.items[k].id : k \in {j \in DOMAIN folder.items : folder.items[j].active}}
    IN IF ~(folder.selected /\ confirmed) THEN w
       ELSE [w EXCEPT !.library.gs1.items = SelectSeq(@, LAMBDA x : ~x.active),
                      !.gs1.rotationItems = SelectSeq(@, LAMBDA x : x.id \notin gone)]

\* clearSelected(): after the confirm, the folder gets a new list without its
\* active items.
Gs1ClearSelected(w, confirmed) ==
    IF ~(w.library.gs1.selected /\ confirmed) THEN w
    ELSE [w EXCEPT !.library.gs1.items = SelectSeq(@, LAMBDA x : ~x.active)]

\* Controllers.Library, the DataMatrix library: a new item at the end of the
\* selected folder (or of a new one), the active flags of the folder, and
\* the removal of the active items.
LibraryNewItem(id, i) ==
    [id |-> id, barcode |-> Gtin(i),
     template |-> IF i % 2 = 1 THEN "type1" ELSE "type2", active |-> TRUE]

LibraryAddItem(w, i) ==
    LET folder == IF w.library.dm.selected THEN w.library.dm
                  ELSE [selected |-> TRUE, items |-> <<>>]
    IN [w EXCEPT !.library.dm =
                     [folder EXCEPT !.items =
                                        Append(@, LibraryNewItem(w.library.created + 1, i))],
                 !.library.created = @ + 1]

LibrarySetAll(w, flag) ==
    LET folder == w.library.dm
        ids == ItemIds(folder.items)
    IN IF ~folder.selected THEN w
       ELSE [w EXCEPT !.library.dm.items = SetActive(@, ids, flag),
                      !.dm.rotationList = SetActive(@, ids, flag)]

LibraryClearSelected(w, confirmed) ==
    IF ~(w.library.dm.selected /\ confirmed) THEN w
    ELSE [w EXCEPT !.library.dm.items = SelectSeq(@, LAMBDA x : ~x.active)]

\* ------------------------------------------------- generators.js: encoders
\* A string is the sequence of its characters.
DigitChars == <<"0", "1", "2", "3", "4", "5", "6", "7", "8", "9">>
DigitChar(d) == DigitChars[d + 1]
IsDigit(c) == \E d \in 0..9 : DigitChar(d) = c
DigitOf(c) == CHOOSE d \in 0..9 : DigitChar(d) = c
Digits(s) == [i \in 1..Len(s) |-> DigitOf(s[i])]

RECURSIVE Pow10(_)
Pow10(n) == IF n = 0 THEN 1 ELSE 10 * Pow10(n - 1)

\* String(n) of an integer.
RECURSIVE Str(_)
Str(n) ==
    IF n < 0 THEN <<"-">> \o Str(-n)
    ELSE IF n < 10 THEN <<DigitChar(n)>>
    ELSE Str(n \div 10) \o <<DigitChar(n % 10)>>

\* Utils.padZeros(value, width): zeros on the left up to the width; a longer
\* value stays as it is.
PadZeros(s, width) ==
    IF Len(s) >= width THEN s ELSE [i \in 1..(width - Len(s)) |-> "0"] \o s

\* Utils.calcControlCore(code): the weights 3 and 1 from the right, modulo 10.
CalcControlCore(digits) ==
    LET n == Len(digits)
        weighted == [i \in 1..n |-> IF (n - i) % 2 = 0 THEN 3 * digits[i] ELSE digits[i]]
    IN (10 - (SumSeq(weighted) % 10)) % 10

\* A faulty variant of generateWeightBarcode: the CAS weight field is 5 wide.
GenerateWeightBarcodeNarrowWeight(prefix, plu, weight, discount) ==
    LET disc == IF discount = None THEN 0 ELSE discount[1]
        code == IF prefix = "77"
                THEN <<"7", "7">> \o PadZeros(plu, 6) \o PadZeros(Str(weight), 5)
                ELSE IF prefix = "49"
                THEN <<"4", "9">> \o PadZeros(plu, 9) \o PadZeros(Str(disc), 2)
                         \o PadZeros(Str(weight), 5)
                ELSE <<"2", "2">> \o PadZeros(plu, 5) \o PadZeros(Str(weight), 5)
        ctrl == IF prefix = "77" THEN <<"0">>
                ELSE IF prefix = "49" THEN Str(CalcControlCore(Digits(code)))
                ELSE Str(CalcControlEAN13(Digits(code)))
    IN [code |-> code \o ctrl,
        format |-> IF prefix \in {"77", "49"} THEN "CODE128" ELSE "EAN13",
        weight |-> weight, plu |-> plu, prefix |-> prefix, discount |-> discount]

\* generateWeightBarcode(prefix, plu, weight, discount): '77' is the CAS
\* layout with the control character '0', '49' the Code128 layout with the
\* discount, and every other prefix the EAN-13 layout, which starts with '22'.
GenerateWeightBarcode(prefix, plu, weight, discount) ==
    LET disc == IF discount = None THEN 0 ELSE discount[1]
        code == IF prefix = "77"
                THEN <<"7", "7">> \o PadZeros(plu, 6) \o PadZeros(Str(weight), 7)
                ELSE IF prefix = "49"
                THEN <<"4", "9">> \o PadZeros(plu, 9) \o PadZeros(Str(disc), 2)
                         \o PadZeros(Str(weight), 5)
                ELSE <<"2", "2">> \o PadZeros(plu, 5) \o PadZeros(Str(weight), 5)
        ctrl == IF prefix = "77" THEN <<"0">>
                ELSE IF prefix = "49" THEN Str(CalcControlCore(Digits(code)))
                ELSE Str(CalcControlEAN13(Digits(code)))
    IN [code |-> code \o ctrl,
        format |-> IF prefix \in {"77", "49"} THEN "CODE128" ELSE "EAN13",
        weight |-> weight, plu |-> plu, prefix |-> prefix, discount |-> discount]

\* Config.GS1_CONSTANTS, as the description of generateGS1Code gives them.
GS1_CONSTANTS ==
    [GS_CHAR |-> "GS",
     PREFIX |-> <<"9", "9", "M", "P", "U", "C">>,
     AI_GOODS_ID |-> <<"2", "4", "0">>,
     AI_QUANTITY |-> <<"3", "7">>,
     AI_WEIGHT |-> <<"3", "1", "0", "3">>,
     AI_DISCOUNT |-> <<"9", "8">>,
     AI_UNIQUE_ID |-> <<"2", "1">>,
     AI_DECIMAL_POS |-> <<"9", "7">>]

GS == GS1_CONSTANTS.GS_CHAR

\* generateUniqueId(): 8 characters, each drawn from the 36 (draws are the
\* values of Math.floor(Math.random() * 36)).
UniqueIdChars ==
    <<"A", "B", "C", "D", "E", "F", "G", "H", "I", "J", "K", "L", "M", "N", "O",
      "P", "Q", "R", "S", "T", "U", "V", "W", "X", "Y", "Z">> \o DigitChars

GenerateUniqueId(draws) == [i \in 1..8 |-> UniqueIdChars[draws[i] + 1]]

\* A quantity is raw / 10^dp, raw not ending in 0 when dp > 0 (the number as
\* JavaScript prints it). quantity.toString():
NumberToString(q) ==
    IF q.dp = 0 THEN Str(q.raw)
    ELSE Str(q.raw \div Pow10(q.dp)) \o <<".">>
             \o PadZeros(Str(q.raw % Pow10(q.dp)), q.dp)

\* str.indexOf('.')
DotIndex(str) ==
    IF \E i \in 1..Len(str) : str[i] = "."
    THEN (CHOOSE i \in 1..Len(str) : str[i] = "." /\ \A j \in 1..(i - 1) : str[j] # ".") - 1
    ELSE -1

\* calculateDecimalPosition(quantity)
CalculateDecimalPosition(q) ==
    LET str == NumberToString(q)
        dotIndex == DotIndex(str)
    IN IF dotIndex = -1 THEN 0 ELSE Len(str) - dotIndex - 1

\* A faulty variant of the raw quantity: the fraction is cut off.
QtyRawTruncated(q, decimalPosition) == q.raw \div Pow10(q.dp)

\* Math.round(quantity * Math.pow(10, decimalPosition)), for a decimalPosition
\* that is not below the quantity's own (the product is then an integer).
QtyRaw(q, decimalPosition) == q.raw * Pow10(decimalPosition - q.dp)

\* (params.goodsId || '').replace(/\D/g, '').substring(0, 8)
StripGoodsId(goodsId) ==
    LET digits == SelectSeq(IF goodsId = None THEN <<>> ELSE goodsId[1], IsDigit)
    IN SubSeq(digits, 1, IF Len(digits) < 8 THEN Len(digits) ELSE 8)

\* A faulty variant of the GoodsId test: nothing is missing.
GoodsIdMissingNever(goodsId) == FALSE

\* if (!goodsId)
GoodsIdMissing(goodsId) == goodsId = <<>>

\* A faulty variant of the discount part: the caller's uniqueId is ignored.
DiscountSegmentsOwnId(params, draws) ==
    IF params.discount # None /\ params.discount[1] > 0
    THEN GS1_CONSTANTS.AI_DISCOUNT \o PadZeros(Str(params.discount[1]), 2) \o <<GS>>
             \o GS1_CONSTANTS.AI_UNIQUE_ID \o GenerateUniqueId(draws) \o <<GS>>
    ELSE <<>>

\* if (params.discount > 0): AI 98 with the discount and AI 21 with
\* params.uniqueId || generateUniqueId().
DiscountSegments(params, draws) ==
    IF params.discount # None /\ params.discount[1] > 0
    THEN LET uniqueId == IF params.uniqueId = None \/ params.uniqueId = Some(<<>>)
                         THEN GenerateUniqueId(draws)
                         ELSE params.uniqueId[1]
         IN GS1_CONSTANTS.AI_DISCOUNT \o PadZeros(Str(params.discount[1]), 2) \o <<GS>>
                \o GS1_CONSTANTS.AI_UNIQUE_ID \o uniqueId \o <<GS>>
    ELSE <<>>

Zero == [raw |-> 0, dp |-> 0]

Thrown(message) == [ok |-> FALSE, code |-> <<>>, error |-> message]

\* generateGS1Code(params); draws are the random draws generateUniqueId()
\* makes if it is called.
GenerateGS1Code(params, draws) ==
    LET goodsId == StripGoodsId(params.goodsId)
        head == GS1_CONSTANTS.PREFIX \o <<GS>> \o GS1_CONSTANTS.AI_GOODS_ID \o goodsId \o <<GS>>
        quantity == IF params.quantity = None THEN Zero ELSE params.quantity[1]
        decimalPosition == IF params.decimalPosition # None
                           THEN params.decimalPosition[1]
                           ELSE CalculateDecimalPosition(quantity)
        qtyRaw == QtyRaw(quantity, decimalPosition)
        weight == IF params.weight = None THEN 0 ELSE params.weight[1]
    IN IF GoodsIdMissing(goodsId) THEN Thrown("GoodsId is required")
       ELSE IF params.type = "piece"
       THEN [ok |-> TRUE, error |-> "",
             code |-> head \o GS1_CONSTANTS.AI_QUANTITY \o PadZeros(Str(qtyRaw), 8) \o <<GS>>
                          \o DiscountSegments(params, draws)
                          \o (IF decimalPosition > 0
                              THEN GS1_CONSTANTS.AI_DECIMAL_POS \o Str(decimalPosition) \o <<GS>>
                              ELSE <<>>)]
       ELSE IF params.type = "weight"
       THEN [ok |-> TRUE, error |-> "",
             code |-> head \o GS1_CONSTANTS.AI_WEIGHT \o PadZeros(Str(weight), 6) \o <<GS>>
                          \o DiscountSegments(params, draws)]
       ELSE Thrown("Invalid type: must be \"piece\" or \"weight\"")

\* The item addItems() makes of one GoodsId of the form: the code from the
\* form's values, and the fields stored with it. draws are the draws of the
\* generateUniqueId() call inside generateGS1Code, storedDraws those of the
\* call that fills item.uniqueId.
AddItemsItem(goodsId, type, quantity, weight, discount, draws, storedDraws) ==
    LET params == [goodsId |-> Some(goodsId), type |-> type,
                   discount |-> Some(discount),
                   quantity |-> IF type = "piece" THEN quantity ELSE None,
                   weight |-> IF type = "piece" THEN None ELSE weight,
                   uniqueId |-> None, decimalPosition |-> None]
        generated == GenerateGS1Code(params, draws)
    IN [made |-> generated.ok,
        code |-> generated.code,
        goodsId |-> goodsId,
        type |-> type,
        quantity |-> params.quantity,
        weight |-> params.weight,
        discount |-> discount,
        uniqueId |-> IF discount > 0 THEN Some(GenerateUniqueId(storedDraws)) ELSE None,
        decimalPosition |-> IF type = "piece" /\ params.quantity # None
                               /\ params.quantity[1].raw # 0
                            THEN CalculateDecimalPosition(params.quantity[1])
                            ELSE 0]

\* addItems() as a whole, with the fixed modes of quantity, weight and
\* discount: the lines of the GoodsId field that hold 1 to 8 digits, for each
\* of them as many entries as there are variations, every entry generated
\* inside its own try; what was generated goes to the end of the folder and
\* the alert tells how many were added. Each catch writes one line to the
\* console. draws are the draws of every generateUniqueId() call.
AddItems(folderItems, lines, type, variations, quantity, weight, discount, draws) ==
    LET stripped == [k \in 1..Len(lines) |-> SelectSeq(lines[k], IsDigit)]
        goodsIdList == SelectSeq(stripped, LAMBDA c : Len(c) > 0 /\ Len(c) <= 8)
        entries == [e \in 1..(Len(goodsIdList) * variations) |->
                       AddItemsItem(goodsIdList[((e - 1) \div variations) + 1], type,
                                    quantity, weight, discount, draws, draws)]
        items == SelectSeq(entries, LAMBDA it : it.made)
    IN IF Len(goodsIdList) = 0
       THEN [folder |-> folderItems, consoleErrors |-> 0,
             alert |-> [text |-> "enter at least one GoodsId", number |-> None]]
       ELSE IF Len(items) = 0
       THEN [folder |-> folderItems, consoleErrors |-> Len(entries),
             alert |-> [text |-> "no code could be generated", number |-> None]]
       ELSE [folder |-> folderItems \o items, consoleErrors |-> Len(entries) - Len(items),
             alert |-> [text |-> "added", number |-> Some(Len(items))]]

\* The text of a DataMatrix payload as the template lays it out: AI 01 and
\* the 14 digits, AI 21 and the serial, and for the second template a group
\* separator and AI 93 after it.
DmText(code) ==
    <<"0", "1">> \o [i \in 1..Len(code.ai01) |-> DigitChar(code.ai01[i])]
        \o <<"2", "1">> \o Str(code.serial)
        \o (IF code.template = "type2" THEN <<GS, "9", "3", "t", "2">> ELSE <<>>)

\* dmCode.match(/01(\d{14})/): where the leftmost '01' followed by 14 digits
\* begins.
Ai01Matches(dmCode) ==
    {i \in 1..(Len(dmCode) - 15) :
        /\ dmCode[i] = "0"
        /\ dmCode[i + 1] = "1"
        /\ \A k \in 2..15 : IsDigit(dmCode[i + k])}

\* A faulty variant of extractEAN13FromDM: the first 12 of the 14 digits, the
\* padding digit among them.
ExtractEAN13KeepingPad(dmCode) ==
    IF Ai01Matches(dmCode) = {} THEN [kind |-> "null", code |-> <<>>]
    ELSE LET i == CHOOSE m \in Ai01Matches(dmCode) : \A n \in Ai01Matches(dmCode) : m <= n
             gtin14 == SubSeq(dmCode, i + 2, i + 15)
             ean12 == SubSeq(gtin14, 1, 12)
         IN [kind |-> "EAN13", code |-> ean12 \o Str(CalcControlEAN13(Digits(ean12)))]

\* extractEAN13FromDM(dmCode) on the text of the payload: of the 14 digits
\* after the leftmost '01', the 2nd to the 13th and their check digit; null
\* when there is no such match.
ExtractEAN13FromText(dmCode) ==
    IF Ai01Matches(dmCode) = {} THEN [kind |-> "null", code |-> <<>>]
    ELSE LET i == CHOOSE m \in Ai01Matches(dmCode) : \A n \in Ai01Matches(dmCode) : m <= n
             gtin14 == SubSeq(dmCode, i + 2, i + 15)
             ean12 == SubSeq(gtin14, 2, 13)
         IN [kind |-> "EAN13", code |-> ean12 \o Str(CalcControlEAN13(Digits(ean12)))]

\* value.trim(): without the blanks at both ends.
RECURSIVE Trim(_)
Trim(s) ==
    IF s = <<>> THEN s
    ELSE IF Head(s) = " " THEN Trim(Tail(s))
    ELSE IF s[Len(s)] = " " THEN Trim(SubSeq(s, 1, Len(s) - 1))
    ELSE s

\* A faulty variant of generateSimple: every value of digits gets a check
\* digit, whatever its length.
GenerateSimpleAnyLength(value, type) ==
    LET code == Trim(value)
    IN [code |-> IF type = "EAN13" /\ code # <<>>
                    /\ \A i \in 1..Len(code) : IsDigit(code[i])
                 THEN code \o Str(CalcControlEAN13(Digits(code)))
                 ELSE code,
        format |-> type]

\* generateSimple(value, type): the trimmed value, with the EAN-13 check digit
\* after it when the type is 'EAN13' and the trimmed value is 12 digits.
GenerateSimple(value, type) ==
    LET code == Trim(value)
    IN [code |-> IF type = "EAN13" /\ Len(code) = 12
                    /\ \A i \in 1..Len(code) : IsDigit(code[i])
                 THEN code \o Str(CalcControlEAN13(Digits(code)))
                 ELSE code,
        format |-> type]

\* Config.BARCODE_CONFIGS: the three layouts of the weight barcodes as field
\* lists; the first has a fixed control character.
BARCODE_CONFIGS ==
    [typeId \in {"code128_16_weight", "code128_19_piece", "ean13_weight"} |->
        IF typeId = "code128_16_weight"
        THEN [prefix |-> <<"7", "7">>,
              fields |-> <<[name |-> "plu", length |-> 6],
                           [name |-> "weight", length |-> 7]>>,
              fixedControl |-> Some(<<"0">>), format |-> "CODE128"]
        ELSE IF typeId = "code128_19_piece"
        THEN [prefix |-> <<"4", "9">>,
              fields |-> <<[name |-> "plu", length |-> 9],
                           [name |-> "discount", length |-> 2],
                           [name |-> "weight", length |-> 5]>>,
              fixedControl |-> None, format |-> "CODE128"]
        ELSE [prefix |-> <<"2", "2">>,
              fields |-> <<[name |-> "plu", length |-> 5],
                           [name |-> "weight", length |-> 5]>>,
              fixedControl |-> None, format |-> "EAN13"]]

\* cfg.fields.forEach: the digits of each value, padded, one after another.
RECURSIVE FieldsCode(_, _)
FieldsCode(fields, values) ==
    IF fields = <<>> THEN <<>>
    ELSE PadZeros(SelectSeq(values[Head(fields).name], IsDigit), Head(fields).length)
             \o FieldsCode(Tail(fields), values)

\* The control character of the code: the fixed one of the configuration,
\* the EAN-13 digit for 'ean13_weight', the core digit otherwise.
ConfigCtrl(typeId, code) ==
    IF BARCODE_CONFIGS[typeId].fixedControl # None
    THEN BARCODE_CONFIGS[typeId].fixedControl[1]
    ELSE IF typeId = "ean13_weight" THEN Str(CalcControlEAN13(Digits(code)))
    ELSE Str(CalcControlCore(Digits(code)))

\* Math.floor(Math.random() * 10).toString() until it is not ctrl: the first
\* of the draws that differs.
BadCtrl(random, ctrl) ==
    Str(random[CHOOSE i \in 1..Len(random) :
                   /\ Str(random[i]) # ctrl
                   /\ \A j \in 1..(i - 1) : Str(random[j]) = ctrl])

\* A faulty variant of generateFromConfig: the first draw is the control
\* digit, equal to the correct one or not.
GenerateFromConfigFirstDraw(typeId, values, simulateError, random) ==
    IF typeId \notin DOMAIN BARCODE_CONFIGS THEN [kind |-> "null", code |-> <<>>, format |-> ""]
    ELSE LET cfg == BARCODE_CONFIGS[typeId]
             hasError == \E k \in 1..Len(cfg.fields) :
                             Len(SelectSeq(values[cfg.fields[k].name], IsDigit))
                                 > cfg.fields[k].length
             code == cfg.prefix \o FieldsCode(cfg.fields, values)
             ctrl == ConfigCtrl(typeId, code)
         IN IF hasError THEN [kind |-> "null", code |-> <<>>, format |-> ""]
            ELSE [kind |-> "code",
                  code |-> code \o (IF simulateError /\ cfg.fixedControl = None
                                    THEN Str(random[1]) ELSE ctrl),
                  format |-> cfg.format]

\* generateFromConfig(typeId, values, simulateError): null for an unknown
\* type and for a value longer than its field; otherwise the prefix, the
\* fields and the control character, which simulateError replaces by another
\* digit unless the configuration fixes it.
GenerateFromConfig(typeId, values, simulateError, random) ==
    IF typeId \notin DOMAIN BARCODE_CONFIGS THEN [kind |-> "null", code |-> <<>>, format |-> ""]
    ELSE LET cfg == BARCODE_CONFIGS[typeId]
             hasError == \E k \in 1..Len(cfg.fields) :
                             Len(SelectSeq(values[cfg.fields[k].name], IsDigit))
                                 > cfg.fields[k].length
             code == cfg.prefix \o FieldsCode(cfg.fields, values)
             ctrl == ConfigCtrl(typeId, code)
         IN IF hasError THEN [kind |-> "null", code |-> <<>>, format |-> ""]
            ELSE [kind |-> "code",
                  code |-> code \o (IF simulateError /\ cfg.fixedControl = None
                                    THEN BadCtrl(random, ctrl) ELSE ctrl),
                  format |-> cfg.format]

\* ------------------------------------------------------------ the machine
NoNav == [calls |-> -1, shown |-> <<>>, paused |-> None]

\* The state before init(): State's initial values, nothing displayed.
BlankWorld ==
    [dm |-> [rotationList |-> <<>>, rotationIndex |-> 0, isRotating |-> FALSE,
             generatedCodes |-> <<>>, codeHistoryIndex |-> -1,
             timerInterval |-> FALSE, remaining |-> DefaultInterval,
             timerValue |-> DefaultInterval, selectedTemplate |-> DefaultTemplate],
     gs1 |-> [rotationItems |-> <<>>, rotationIndex |-> 0, isRotating |-> FALSE,
              timerInterval |-> FALSE, remaining |-> DefaultInterval,
              timerValue |-> DefaultInterval],
     checked |-> [c \in CheckboxIds |-> FALSE],
     activity |-> [DM |-> 0, GS1 |-> 0],
     demoIndex |-> 0,
     timers |-> [dm |-> 0, gs1 |-> 0],
     screen |-> [dm |-> DmDisplay([kind |-> "null"], FALSE, None, <<>>),
                 gs1 |-> None],
     library |-> [dm |-> NoFolder, gs1 |-> NoFolder, created |-> 0],
     renderer |-> [throws |-> FALSE, failed |-> FALSE]]

\* No encoder has been called.
Idle == [in |-> [none |-> TRUE], out |-> [none |-> TRUE]]

\* init(): once the rendering library is there, the first demo code is
\* generated and the DataMatrix timer started.
AppInit(w) == StartTimer(GenerateAndDisplay(w))

\* The step to world w: the log and the GS1 index stay within the bounds.
Becomes(world, op, nv) ==
    \E w \in {world} :
    /\ Logged(w) <= MaxLog
    /\ w.gs1.rotationIndex <= MaxGs1Index
    /\ w.library.created <= MaxItems
    /\ dm' = w.dm
    /\ gs1' = w.gs1
    /\ checked' = w.checked
    /\ activity' = w.activity
    /\ demoIndex' = w.demoIndex
    /\ timers' = w.timers
    /\ screen' = w.screen
    /\ lastOp' = op
    /\ nav' = nv
    /\ tab' = tab
    /\ library' = w.library
    /\ renderer' = w.renderer
    /\ enc' = enc

InitProgram ==
    LET w == AppInit(BlankWorld)
    IN /\ dm = w.dm
       /\ gs1 = w.gs1
       /\ checked = w.checked
       /\ activity = w.activity
       /\ demoIndex = w.demoIndex
       /\ timers = w.timers
       /\ screen = w.screen
       /\ lastOp = "init"
       /\ nav = NoNav
       /\ tab \in {"datamatrix", "gs1pack"}
       /\ library = w.library
       /\ renderer = w.renderer

Init == InitProgram /\ enc = Idle

\* A live DataMatrix interval fires.
DmTick ==
    /\ tab = "datamatrix"
    /\ timers.dm > 0
    /\ Becomes(TimerCallback(World), "dmTick", NoNav)

DmManualNext ==
    /\ tab = "datamatrix"
    /\ LET w == ManualNext(World)
           counting == nav.calls >= 0 /\ nav.calls <= Len(dm.rotationList)
       IN Becomes(w, "dmManualNext",
                  IF counting
                  THEN [calls |-> nav.calls + 1,
                        shown |-> Append(nav.shown, w.screen.dm.code),
                        paused |-> None]
                  ELSE NoNav)

DmManualPrev ==
    /\ tab = "datamatrix"
    /\ Becomes(ManualPrev(World), "dmManualPrev", NoNav)

DmStartTimer ==
    /\ tab = "datamatrix"
    /\ Becomes(StartTimer(World), "dmStartTimer", NoNav)

DmStopTimer ==
    /\ tab = "datamatrix"
    /\ Becomes(StopTimer(World), "dmStopTimer", NoNav)

\* The pause and play buttons again, with State.dm as it was before the pause
\* kept in the history variable until the timer is resumed.
DmPauseStep ==
    /\ tab = "datamatrix"
    /\ Becomes(StopTimer(World), "dmStopTimer", [NoNav EXCEPT !.paused = Some(dm)])

DmResumeStep ==
    /\ tab = "datamatrix"
    /\ Becomes(StartTimer(World), "dmStartTimer",
               IF lastOp = "dmStopTimer" THEN nav ELSE NoNav)

DmSetInterval(value) ==
    /\ tab = "datamatrix"
    /\ Becomes(SetInterval(World, value), "dmSetInterval", NoNav)

DmStartRotation(folder) ==
    /\ tab = "datamatrix"
    /\ Becomes(StartRotation(World, folder), "dmStartRotation",
               IF StartRotationRejected(folder) THEN NoNav
               ELSE [calls |-> 0, shown |-> <<>>, paused |-> None])

DmStopRotation ==
    /\ tab = "datamatrix"
    /\ Becomes(StopRotation(World), "dmStopRotation", NoNav)

DmDoubleScanChange(id) ==
    /\ tab = "datamatrix"
    /\ Becomes(DoubleScanChange(World, id), "dmDoubleScanChange", NoNav)

\* The page is hidden: visibilitychange fires with document.hidden once, and
\* again with the page visible before anything else reaches the page.
VisibilityHiddenStep ==
    /\ lastOp # "visibilityHidden"
    /\ Becomes(VisibilityHidden(World), "visibilityHidden",
               IF tab = "datamatrix" THEN [NoNav EXCEPT !.paused = Some(dm)] ELSE nav)

VisibilityVisibleStep ==
    /\ lastOp = "visibilityHidden"
    /\ Becomes(VisibilityVisible(World, tab), "visibilityVisible",
               IF tab = "datamatrix" THEN NoNav ELSE nav)

\* A live GS1 interval fires.
Gs1Tick ==
    /\ tab = "gs1pack"
    /\ timers.gs1 > 0
    /\ Becomes(Gs1TimerCallback(World), "gs1Tick", nav)

Gs1ManualNextStep ==
    /\ tab = "gs1pack"
    /\ Becomes(Gs1ManualNext(World), "gs1ManualNext", nav)

Gs1ManualPrevStep ==
    /\ tab = "gs1pack"
    /\ Becomes(Gs1ManualPrev(World), "gs1ManualPrev", nav)

Gs1SetIntervalStep(value) ==
    /\ tab = "gs1pack"
    /\ Becomes(Gs1SetInterval(World, value), "gs1SetInterval", nav)

Gs1StartRotationStep(folder) ==
    /\ tab = "gs1pack"
    /\ Becomes(Gs1StartRotation(World, folder), "gs1StartRotation", nav)

Gs1StopRotationStep ==
    /\ tab = "gs1pack"
    /\ Becomes(Gs1StopRotation(World), "gs1StopRotation", nav)

\* The two controllers share no state: every handler of one leaves the
\* other's session object, timers and display as they are. A behaviour
\* exercises the controller of one tab.
Next ==
    \/ DmTick
    \/ DmManualNext
    \/ DmManualPrev
    \/ DmStartTimer
    \/ DmStopTimer
    \/ \E value \in IntervalInputs : DmSetInterval(value)
    \/ \E folder \in DmFolders : DmStartRotation(folder)
    \/ DmStopRotation
    \/ \E id \in ClickedIds : DmDoubleScanChange(id)
    \/ Gs1Tick
    \/ Gs1ManualNextStep
    \/ Gs1ManualPrevStep
    \/ \E value \in IntervalInputs : Gs1SetIntervalStep(value)
    \/ \E folder \in Gs1Folders : Gs1StartRotationStep(folder)
    \/ Gs1StopRotationStep

Spec == Init /\ [][Next]_vars

\* The timers of both tabs under every handler that arms or clears one, the
\* page being hidden and shown again included.
NextVisibility ==
    \/ VisibilityHiddenStep
    \/ VisibilityVisibleStep
    \/ DmPauseStep
    \/ DmResumeStep
    \/ DmTick
    \/ DmManualNext
    \/ DmManualPrev
    \/ \E value \in IntervalInputs : DmSetInterval(value)
    \/ \E folder \in DmFolders : DmStartRotation(folder)
    \/ DmStopRotation
    \/ Gs1Tick
    \/ Gs1ManualNextStep
    \/ \E value \in IntervalInputs : Gs1SetIntervalStep(value)
    \/ \E folder \in Gs1Folders : Gs1StartRotationStep(folder)
    \/ Gs1StopRotationStep

SpecVisibility == Init /\ [][NextVisibility]_vars

\* The DataMatrix tab with all four double-scan checkboxes in use and the
\* interval left alone.
NextDoubleScan ==
    \/ \E id \in CheckboxIds : DmDoubleScanChange(id)
    \/ \E folder \in DmFolders : DmStartRotation(folder)
    \/ DmStopRotation
    \/ DmManualNext
    \/ DmManualPrev
    \/ DmTick
    \/ DmStartTimer
    \/ DmStopTimer

SpecDoubleScan == Init /\ [][NextDoubleScan]_vars

\* The library buttons of the GS1 tab and of the DataMatrix library, and the
\* start buttons, which run the selected folder.
Gs1AddItemsStep(goodsIdList) ==
    /\ tab = "gs1pack"
    /\ Becomes(Gs1AddItems(World, goodsIdList), "gs1AddItems", nav)

Gs1SelectAllStep ==
    /\ tab = "gs1pack"
    /\ Becomes(Gs1SelectAll(World), "gs1SelectAll", nav)

Gs1DeselectAllStep ==
    /\ tab = "gs1pack"
    /\ Becomes(Gs1DeselectAll(World), "gs1DeselectAll", nav)

Gs1ClearSelectedStep(confirmed) ==
    /\ tab = "gs1pack"
    /\ Becomes(Gs1ClearSelected(World, confirmed), "gs1ClearSelected", nav)

Gs1StartSelectedStep == Gs1StartRotationStep(library.gs1)

LibraryAddItemStep(i) ==
    /\ tab = "datamatrix"
    /\ Becomes(LibraryAddItem(World, i), "libraryAddItems", NoNav)

LibrarySelectAllStep ==
    /\ tab = "datamatrix"
    /\ Becomes(LibrarySetAll(World, TRUE), "librarySelectAll", NoNav)

LibraryDeselectAllStep ==
    /\ tab = "datamatrix"
    /\ Becomes(LibrarySetAll(World, FALSE), "libraryDeselectAll", NoNav)

LibraryClearSelectedStep(confirmed) ==
    /\ tab = "datamatrix"
    /\ Becomes(LibraryClearSelected(World, confirmed), "libraryClearSelected", NoNav)

DmStartSelected == DmStartRotation(library.dm)

\* A session over a folder of the library, shown by the timer (and, in the
\* GS1 tab, by the next button), and the library edited meanwhile.
NextFolder ==
    \/ \E goodsIdList \in GoodsIdLists : Gs1AddItemsStep(goodsIdList)
    \/ Gs1SelectAllStep
    \/ Gs1DeselectAllStep
    \/ \E confirmed \in BOOLEAN : Gs1ClearSelectedStep(confirmed)
    \/ Gs1StartSelectedStep
    \/ Gs1StopRotationStep
    \/ Gs1Tick
    \/ Gs1ManualNextStep
    \/ \E i \in {1, 2} : LibraryAddItemStep(i)
    \/ LibrarySelectAllStep
    \/ LibraryDeselectAllStep
    \/ \E confirmed \in BOOLEAN : LibraryClearSelectedStep(confirmed)
    \/ DmStartSelected
    \/ DmStopRotation
    \/ DmTick

SpecFolder == Init /\ [][NextFolder]_vars

\* The drawing library starts or stops throwing (it throws on text it cannot
\* encode, or when it failed to load).
RendererStep(throws) ==
    /\ tab = "datamatrix"
    /\ throws # renderer.throws
    /\ Becomes([World EXCEPT !.renderer.throws = throws], "renderer", NoNav)

\* The DataMatrix tab with a drawing library that may throw.
NextRender ==
    \/ \E throws \in BOOLEAN : RendererStep(throws)
    \/ DmTick
    \/ DmManualNext
    \/ DmManualPrev
    \/ DmStartTimer
    \/ DmStopTimer
    \/ \E folder \in DmFolders : DmStartRotation(folder)
    \/ DmStopRotation

SpecRender == Init /\ [][NextRender]_vars

\* A tab button: Controllers.Tab.switchTo shows the other tab; the sessions and
\* the timers of both tabs go on.
TabSwitchStep(t) ==
    /\ t # tab
    /\ tab' = t
    /\ lastOp' = "tabSwitch"
    /\ UNCHANGED <<dm, gs1, checked, activity, demoIndex, timers, screen, nav,
                   library, renderer, enc>>

\* The intervals fire whichever tab is shown.
DmTickAnyTab ==
    /\ timers.dm > 0
    /\ Becomes(TimerCallback(World), "dmTick", NoNav)

Gs1TickAnyTab ==
    /\ timers.gs1 > 0
    /\ Becomes(Gs1TimerCallback(World), "gs1Tick", nav)

\* Both tabs in one behaviour: the user works in the tab that is shown, and
\* the timers of both run.
NextBothTabs ==
    \/ \E t \in {"datamatrix", "gs1pack"} : TabSwitchStep(t)
    \/ DmTickAnyTab
    \/ Gs1TickAnyTab
    \/ \E folder \in DmFolders : DmStartRotation(folder)
    \/ DmStopRotation
    \/ Gs1ManualNextStep
    \/ \E folder \in Gs1Folders : Gs1StartRotationStep(folder)
    \/ Gs1StopRotationStep

SpecBothTabs == Init /\ [][NextBothTabs]_vars

\* The rotations left to their timers: the interval is chosen and a rotation
\* is started when none runs, and after that only the intervals fire.
DmSetIntervalFresh(value) ==
    /\ ~dm.isRotating
    /\ DmSetInterval(value)

Gs1SetIntervalFresh(value) ==
    /\ ~gs1.isRotating
    /\ Gs1SetIntervalStep(value)

DmStartFresh(folder) ==
    /\ ~dm.isRotating
    /\ DmStartRotation(folder)

Gs1StartFresh(folder) ==
    /\ ~gs1.isRotating
    /\ Gs1StartRotationStep(folder)

NextTicks ==
    \/ \E value \in IntervalInputs : DmSetIntervalFresh(value)
    \/ \E value \in IntervalInputs : Gs1SetIntervalFresh(value)
    \/ \E folder \in DmFolders : DmStartFresh(folder)
    \/ DmTick
    \/ \E folder \in Gs1Folders : Gs1StartFresh(folder)
    \/ Gs1Tick

\* window.setInterval calls the callback of a live interval again and again.
SpecTicks == Init /\ [][NextTicks]_vars /\ WF_vars(DmTick) /\ WF_vars(Gs1Tick)

\* ------------------------------------------------------------ the encoders
\* What Math.random() gives generateUniqueId(): any 8 draws; these are three
\* ('ABC12345', 'ZZZZ9999', 'HELLO000').
Draws ==
    {<<0, 1, 2, 27, 28, 29, 30, 31>>, <<25, 25, 25, 25, 35, 35, 35, 35>>,
     <<7, 4, 11, 11, 14, 26, 26, 26>>}

\* The params objects generateGS1Code is called with.
ParamSets ==
    [goodsId : {None, Some(<<>>), Some(<<"1", "2", "3">>), Some(<<"a", "-">>),
                Some(<<"1", "2", "x", "3">>),
                Some(<<"1", "2", "3", "4", "5", "6", "7", "8", "9">>)},
     type : {"piece", "weight", "other"},
     quantity : {None, Some(Zero), Some([raw |-> 50, dp |-> 0]),
                 Some([raw |-> 1245, dp |-> 2])},
     weight : {None, Some(1500)},
     discount : {None, Some(0), Some(10)},
     uniqueId : {None, Some(<<>>), Some(<<"A", "B", "C", "1", "2", "3", "4", "5">>)},
     decimalPosition : {None, Some(2)}]

\* The calls of the encoders: the encoder and its arguments.
WeightCalls ==
    [op : {"generateWeightBarcode"},
     prefix : {"77", "49", "22", "99"},
     plu : {<<"1", "2", "3", "4", "5">>, <<"7">>,
            <<"1", "2", "3", "4", "5", "6", "7">>,
            <<"1", "2", "3", "4", "5", "6", "7", "8", "9", "0">>},
     weight : {1500, 5, 123456, 12345678},
     discount : {None, Some(0), Some(10), Some(100)}]

Gs1Calls == [op : {"generateGS1Code"}, params : ParamSets, draws : Draws]

\* The form of the GS1 tab: a GoodsId of 1 to 8 digits, the product type, a
\* quantity rounded to two decimals or a weight, and a discount.
ItemCalls ==
    [op : {"addItemsItem"},
     goodsId : {<<"1", "2", "3">>, <<"4", "6", "0", "1", "2", "3", "4", "5">>},
     type : {"piece", "weight"},
     quantity : {Some([raw |-> 50, dp |-> 0]), Some([raw |-> 1245, dp |-> 2])},
     weight : {Some(500), Some(1500)},
     discount : {0, 10, 30},
     draws : Draws, storedDraws : Draws]

\* 12 digits, the same between blanks, and values that are not 12 digits.
SimpleCalls ==
    [op : {"generateSimple"},
     value : {<<"5", "9", "0", "1", "2", "3", "4", "1", "2", "3", "4", "5">>,
              <<"4", "8", "1", "0", "0", "9", "9", "0", "0", "3", "3", "1">>,
              <<"0", "0", "0", "0", "0", "0", "0", "0", "0", "0", "0", "0">>,
              <<"4", "6", "0", "0", "0", "0", "0", "0", "0", "0", "1", "9">>,
              <<" ", "5", "9", "0", "1", "2", "3", "4", "1", "2", "3", "4", "5">>,
              <<"5", "9", "0", "1", "2", "3", "4", "1", "2", "3", "4", "5", " ", " ">>,
              <<"5", "9", "0", "1", "2", "3", "4", "1", "2", "3", "4", "5", "7">>,
              <<"5", "9", "0", "1", "2", "3", "4", "1", "2", "3", "4">>,
              <<"5", "9", "0", "1", "2", "3", "4", "1", "2", "3", "4", "x">>,
              <<"5", "9", "0", "1", "2", " ", "3", "4", "1", "2", "3", "4">>,
              <<" ", "A", "B", "C", " ">>,
              <<"1", "2", "3">>,
              <<>>},
     type : {"EAN13", "CODE128", "UPC", "ITF14"}]

\* generateDM(barcode, templateId) of a GTIN with its check digit right, of
\* one with it wrong, and of no barcode (the demo list serves).
DmCalls ==
    [op : {"generateDM"},
     barcode : {None} \cup {Some(Gtin(i)) : i \in {1, 2, 31, 47, 90}}
                      \cup {Some(DEMO_GTINS[0]),
                            Some([Gtin(31) EXCEPT ![13] = (@ + 1) % 10])},
     templateId : TemplateIds]

\* extractEAN13FromDM(dmCode) of payloads from elsewhere: with no AI 01, with
\* fewer than 14 digits after it, with the AI further right.
ExtractCalls ==
    [op : {"extractEAN13FromDM"},
     dmCode : {<<>>,
               <<"2", "1", "A", "B", "C">>,
               <<"0", "1">>,
               <<"0", "1", "0", "4", "8", "1", "0", "0", "9", "9", "0", "0", "3", "3", "1">>,
               <<"0", "1", "0", "4", "8", "1", "0", "0", "9", "9", "0", "0", "3", "3", "1",
                 "x", "0">>,
               <<"1", "0", "0", "4", "8", "1", "0", "0", "9", "9", "0", "0", "3", "3", "1",
                 "0", "2", "1">>,
               <<"0", "0", "4", "8", "1", "0", "0", "9", "9", "0", "0", "3", "3", "1",
                 "0", "7">>,
               <<"]", "d", "2", "0", "1", "0", "4", "8", "1", "0", "0", "9", "9", "0",
                 "0", "3", "3", "1", "0">>,
               <<"0", "1", "x", "0", "1", "0", "4", "6", "0", "0", "0", "0", "0", "0",
                 "0", "0", "0", "1", "7", "2", "1", "5">>,
               <<"9", "1", "0", "1", "0", "1", "0", "4", "8", "1", "0", "0", "9", "9",
                 "0", "0", "3", "3", "1", "0">>}]

\* generateFromConfig(typeId, values, simulateError) with values that fit,
\* that carry other characters, that are missing and that are too long; the
\* random digits are those Math.random gives one after another.
ConfigCalls ==
    [op : {"generateFromConfig"},
     typeId : DOMAIN BARCODE_CONFIGS \cup {"qr"},
     values : [plu : {<<"1", "2", "3", "4", "5">>, <<"1", "-", "2", "3">>, <<>>,
                      <<"1", "2", "3", "4", "5", "6", "7", "8", "9", "0">>},
               weight : {<<"1", "5", "0", "0">>, <<"1", "2", "3", "4", "5", "6">>},
               discount : {<<>>, <<"1", "5">>}],
     simulateError : BOOLEAN,
     random : {<<a, b>> : a \in 0..9, b \in {1, 8}}]

\* addItems() with the form filled in: up to two lines of GoodsIds (good
\* ones, one with other characters, an empty one, one of 9 digits), the
\* checked product type (any value the radio button carries), one or two
\* variations, and a folder that is empty or holds an item already.
AddItemsCalls ==
    [op : {"addItems"},
     folderItems : {<<>>, <<AddItemsItem(<<"7">>, "piece", Some([raw |-> 50, dp |-> 0]),
                                         Some(500), 0, <<0, 1, 2, 27, 28, 29, 30, 31>>,
                                         <<0, 1, 2, 27, 28, 29, 30, 31>>)>>},
     lines : UNION {[1..n -> {<<"1", "2", "3">>, <<"4", "5", "a", "6">>, <<>>,
                              <<"1", "2", "3", "4", "5", "6", "7", "8", "9">>}] : n \in 0..2},
     type : {"piece", "weight", "other"},
     variations : {1, 2},
     quantity : {Some([raw |-> 50, dp |-> 0])},
     weight : {Some(500)},
     discount : {0, 10},
     draws : Draws]

\* The program with a call of an encoder about to be made.
InitEncoders ==
    /\ InitProgram
    /\ enc \in [in : WeightCalls \cup Gs1Calls \cup ItemCalls \cup SimpleCalls
                     \cup DmCalls \cup ExtractCalls \cup ConfigCalls
                     \cup AddItemsCalls,
                out : {Idle.out}]

\* The call returns (or throws): enc.out is its outcome.
Encoded(out) ==
    /\ enc.out = Idle.out
    /\ enc' = [enc EXCEPT !.out = out]
    /\ lastOp' = enc.in.op
    /\ UNCHANGED <<dm, gs1, checked, activity, demoIndex, timers, screen, nav, tab,
                   library, renderer>>

\* Generators.generateWeightBarcode is called.
WeightBarcodeStep ==
    /\ enc.in.op = "generateWeightBarcode"
    /\ Encoded(GenerateWeightBarcode(enc.in.prefix, enc.in.plu, enc.in.weight,
                                     enc.in.discount))

\* Generators.generateGS1Code is called.
Gs1CodeStep ==
    /\ enc.in.op = "generateGS1Code"
    /\ Encoded(GenerateGS1Code(enc.in.params, enc.in.draws))

\* addItems() makes one item of the form's values.
AddItemsItemStep ==
    /\ enc.in.op = "addItemsItem"
    /\ Encoded(AddItemsItem(enc.in.goodsId, enc.in.type, enc.in.quantity,
                            enc.in.weight, enc.in.discount, enc.in.draws,
                            enc.in.storedDraws))

\* Generators.generateSimple is called.
SimpleStep ==
    /\ enc.in.op = "generateSimple"
    /\ Encoded(GenerateSimple(enc.in.value, enc.in.type))

\* Generators.generateDM is called and its payload, as text, is handed to
\* Generators.extractEAN13FromDM.
DmRoundTripStep ==
    /\ enc.in.op = "generateDM"
    /\ enc.out = Idle.out
    /\ LET made == GenerateDM(World, enc.in.barcode, enc.in.templateId)
           code == DmText(made.result.code)
       IN /\ enc' = [enc EXCEPT !.out = [code |-> code, barcode |-> made.result.barcode,
                                          ean |-> ExtractEAN13FromText(code)]]
          /\ activity' = made.w.activity
          /\ demoIndex' = made.w.demoIndex
    /\ lastOp' = enc.in.op
    /\ UNCHANGED <<dm, gs1, checked, timers, screen, nav, tab, library, renderer>>

\* Generators.extractEAN13FromDM is called.
ExtractStep ==
    /\ enc.in.op = "extractEAN13FromDM"
    /\ Encoded(ExtractEAN13FromText(enc.in.dmCode))

\* Generators.generateFromConfig is called; it returns once Math.random has
\* given a digit other than the control digit.
ConfigStep ==
    /\ enc.in.op = "generateFromConfig"
    /\ enc.in.typeId \in DOMAIN BARCODE_CONFIGS =>
           \E i \in 1..Len(enc.in.random) :
               Str(enc.in.random[i])
                   # ConfigCtrl(enc.in.typeId,
                                BARCODE_CONFIGS[enc.in.typeId].prefix
                                    \o FieldsCode(BARCODE_CONFIGS[enc.in.typeId].fields,
                                                  enc.in.values))
    /\ Encoded(GenerateFromConfig(enc.in.typeId, enc.in.values, enc.in.simulateError,
                                  enc.in.random))

\* The add button of the GS1 tab: addItems() runs.
AddItemsStep ==
    /\ enc.in.op = "addItems"
    /\ Encoded(AddItems(enc.in.folderItems, enc.in.lines, enc.in.type, enc.in.variations,
                        enc.in.quantity, enc.in.weight, enc.in.discount, enc.in.draws))

NextEncoders ==
    \/ AddItemsStep
    \/ ConfigStep
    \/ DmRoundTripStep
    \/ ExtractStep
    \/ SimpleStep
    \/ WeightBarcodeStep
    \/ Gs1CodeStep
    \/ AddItemsItemStep

SpecEncoders == InitEncoders /\ [][NextEncoders]_vars

\* ------------------------------------------------------------- the claims
\* The program's state, without the history variables.
ProgramState == <<dm, gs1, checked, activity, demoIndex, timers, screen>>

\* The GTIN a DataMatrix payload carries.
GtinOf(code) == ExtractEAN13FromDM(code).digits

\* Every item of the session list has an entry in the history.
AllItemsInHistory ==
    /\ Len(dm.rotationList) > 0
    /\ \A i \in 1..Len(dm.rotationList) :
          \E j \in 1..Len(dm.generatedCodes) :
              dm.generatedCodes[j].barcode = dm.rotationList[i].barcode

\* The payloads the history records, as primary codes.
HistoryCodes(d) == {d.generatedCodes[j].code : j \in 1..Len(d.generatedCodes)}

\* The manualNext() calls made since startRotation, with nothing else in
\* between: call k (k = 1 .. N) showed the item at index k mod N of the
\* session list, which is the source order continued after item 0, the item
\* startRotation itself displayed; the N calls showed N different items; and
\* call N + 1 showed the payload of call 1.
C1_Shown ==
    LET N == Len(dm.rotationList)
    IN nav.calls >= 1 =>
        /\ \A k \in 1..nav.calls :
              k <= N => GtinOf(nav.shown[k]) = dm.rotationList[(k % N) + 1].barcode
        /\ nav.calls >= N =>
              \A j, k \in 1..N : j # k => GtinOf(nav.shown[j]) # GtinOf(nav.shown[k])
        /\ nav.calls = N + 1 => nav.shown[N + 1] = nav.shown[1]

\* C1: after startRotation on N distinct active items, with no tick and no
\* toggle in between, N successive manualNext() calls display every item
\* exactly once in (cyclic) source order, and call N + 1 displays exactly the
\* payload of call 1, taken from the history: nothing is generated or logged.
C1_NextVisitsEveryItemThenReplays ==
    [][/\ C1_Shown'
       /\ nav'.calls = Len(dm.rotationList) + 1 =>
             /\ dm'.generatedCodes = dm.generatedCodes
             /\ activity' = activity
             /\ nav'.shown[nav'.calls] \in HistoryCodes(dm)]_vars

C1_Witness ==
    /\ Len(dm.rotationList) >= 2
    /\ nav.calls = Len(dm.rotationList) + 1

\* C2: in every reachable state -1 <= codeHistoryIndex <= generatedCodes.length - 1.
C2_CursorInHistory ==
    /\ -1 <= dm.codeHistoryIndex
    /\ dm.codeHistoryIndex <= Len(dm.generatedCodes) - 1

C2_Witness ==
    /\ lastOp = "dmManualNext"
    /\ Len(dm.generatedCodes) >= 2
    /\ dm.codeHistoryIndex = 0

\* C3: once every session item is in the history, manualNext() and
\* manualPrev() change the history cursor (and what is displayed) and nothing
\* else: history, generation cursor, item list and all the rest stay.
C3_ReplayOnly ==
    [][(lastOp' \in {"dmManualNext", "dmManualPrev"} /\ AllItemsInHistory) =>
          /\ dm' = [dm EXCEPT !.codeHistoryIndex = dm'.codeHistoryIndex]
          /\ UNCHANGED <<gs1, checked, activity, demoIndex, timers>>]_vars

C3_Witness ==
    /\ lastOp = "dmManualPrev"
    /\ AllItemsInHistory
    /\ Len(dm.rotationList) >= 2
    /\ dm.codeHistoryIndex = 1

\* C4: in a session with a non-empty history, manualPrev() at cursor 0 moves
\* the cursor to the last history entry and displays it.
C4_PrevWrapsToLastEntry ==
    [][(/\ lastOp' = "dmManualPrev"
        /\ dm.isRotating
        /\ Len(dm.generatedCodes) > 0
        /\ dm.codeHistoryIndex = 0) =>
          /\ dm'.codeHistoryIndex = Len(dm.generatedCodes) - 1
          /\ screen'.dm.code = dm.generatedCodes[Len(dm.generatedCodes)].code]_vars

\* C5: with every session item in the history, manualNext() at the last
\* history entry moves the cursor to entry 0 and displays it, whatever the
\* length of the history.
C5_NextWrapsToFirstEntry ==
    [][(/\ lastOp' = "dmManualNext"
        /\ AllItemsInHistory
        /\ dm.codeHistoryIndex = Len(dm.generatedCodes) - 1) =>
          /\ dm'.codeHistoryIndex = 0
          /\ screen'.dm.code = dm.generatedCodes[1].code]_vars

\* The active items of a folder, in the order of the folder.
RECURSIVE KeepActive(_)
KeepActive(items) ==
    IF items = <<>> THEN <<>>
    ELSE (IF Head(items).active THEN <<Head(items)>> ELSE <<>>) \o KeepActive(Tail(items))

HasActiveItem(folder) ==
    folder.selected /\ \E i \in 1..Len(folder.items) : folder.items[i].active

\* C6: DataMatrix startRotation on a folder with an active item, from any
\* state: isRotating, the session list is the folder's active items in folder
\* order, the history is one entry, for item 0, with the cursor on it, and
\* one timer is armed with remaining = timerValue.
C6_StartRotationStartsSession ==
    [][\A folder \in DmFolders :
          (lastOp' = "dmStartRotation" /\ HasActiveItem(folder)
                /\ DmStartRotation(folder)) =>
              /\ dm'.isRotating
              /\ dm'.rotationList = KeepActive(folder.items)
              /\ Len(dm'.generatedCodes) = 1
              /\ dm'.generatedCodes[1].barcode = dm'.rotationList[1].barcode
              /\ GtinOf(dm'.generatedCodes[1].code) = dm'.rotationList[1].barcode
              /\ dm'.generatedCodes[1].rotationIdx = 0
              /\ dm'.codeHistoryIndex = 0
              /\ screen'.dm.code = dm'.generatedCodes[1].code
              /\ timers'.dm = 1
              /\ dm'.timerInterval
              /\ dm'.remaining = dm'.timerValue
              /\ dm'.timerValue = dm.timerValue]_vars

\* A session started after earlier generations, on a folder whose first item
\* is inactive.
C6_Witness ==
    /\ lastOp = "dmStartRotation"
    /\ dm.isRotating
    /\ Len(dm.rotationList) = 1
    /\ dm.rotationList[1].barcode = Gtin(2)
    /\ Len(dm.generatedCodes) = 1
    /\ dm.generatedCodes[1].code.serial >= 3

\* C7: startRotation, in both controllers, without a selected folder or
\* without an active item in it changes nothing: list, cursor, flag, history,
\* history cursor and timer stay, and a running session keeps running.
C7_StartRotationRejected ==
    [][/\ \A folder \in DmFolders :
             (lastOp' = "dmStartRotation" /\ ~HasActiveItem(folder)
                   /\ DmStartRotation(folder)) =>
                 UNCHANGED ProgramState
       /\ \A folder \in Gs1Folders :
             (lastOp' = "gs1StartRotation" /\ ~HasActiveItem(folder)
                   /\ Gs1StartRotationStep(folder)) =>
                 UNCHANGED ProgramState]_vars

\* A rejected start during a running session: an accepted one would have
\* left a history of one entry.
C7_Witness ==
    /\ lastOp = "dmStartRotation"
    /\ dm.isRotating
    /\ timers.dm = 1
    /\ Len(dm.generatedCodes) >= 2

\* C8: after DataMatrix stopRotation of a running or paused session
\* isRotating is false, no timer is armed, the session list is empty and no
\* history entry of the stopped session remains.
C8_StopRotationDiscardsSession ==
    [][(lastOp' = "dmStopRotation" /\ dm.isRotating) =>
          /\ ~dm'.isRotating
          /\ timers'.dm = 0
          /\ ~dm'.timerInterval
          /\ dm'.rotationList = <<>>
          /\ \A j \in 1..Len(dm'.generatedCodes) :
                \A i \in 1..Len(dm.generatedCodes) :
                    /\ dm'.generatedCodes[j] # dm.generatedCodes[i]
                    /\ dm'.generatedCodes[j].code # dm.generatedCodes[i].code]_vars

\* A stop: no session, no timer; the log shows a session came before it.
C8_Witness ==
    /\ lastOp = "dmStopRotation"
    /\ ~dm.isRotating
    /\ timers.dm = 0
    /\ activity.DM >= 3

\* The GS1 carousel is stopped with the items of its last session.
Gs1StoppedWithItems == ~gs1.isRotating /\ Len(gs1.rotationItems) > 0

NotPositive(value) == value.nan \/ ~(value.val > 0)

\* C10: setInterval(v) with v NaN, 0 or negative, in both controllers and in
\* every state, changes no field and neither arms, re-arms nor cancels the
\* timer.
C10_SetIntervalRejectsNonPositive ==
    [][/\ \A value \in IntervalInputs :
             (lastOp' = "dmSetInterval" /\ NotPositive(value)
                   /\ DmSetInterval(value)) =>
                 UNCHANGED ProgramState
       /\ \A value \in IntervalInputs :
             (lastOp' = "gs1SetInterval" /\ NotPositive(value)
                   /\ Gs1SetIntervalStep(value)) =>
                 UNCHANGED ProgramState]_vars

\* A setInterval in the middle of a countdown that did not reset it.
C10_Witness ==
    /\ lastOp = "dmSetInterval"
    /\ timers.dm = 1
    /\ dm.remaining < dm.timerValue

\* The inputs setInterval takes for a positive number.
Positive(value) == ~value.nan /\ value.val > 0

\* C11: setInterval(v) with a positive v sets timerValue to v, and the timer
\* is armed after the call exactly when it was armed before it (DataMatrix
\* and GS1).
C11_SetIntervalKeepsTimerState ==
    [][/\ \A value \in IntervalInputs :
             (lastOp' = "dmSetInterval" /\ Positive(value)
                   /\ DmSetInterval(value)) =>
                 /\ dm'.timerValue = value.val
                 /\ timers'.dm = timers.dm
                 /\ dm'.timerInterval = dm.timerInterval
       /\ \A value \in IntervalInputs :
             (lastOp' = "gs1SetInterval" /\ Positive(value)
                   /\ Gs1SetIntervalStep(value)) =>
                 /\ gs1'.timerValue = value.val
                 /\ timers'.gs1 = timers.gs1
                 /\ gs1'.timerInterval = gs1.timerInterval]_vars

\* The live intervals of a controller are the one its handle names.
OneTimer(t, session) == t = IF session.timerInterval THEN 1 ELSE 0

\* C12: in every reachable state each controller has at most one interval
\* armed, the one its handle names; stopTimer (from the pause button, from
\* stopRotation or from hiding the page) leaves none, and a tick fires only
\* from an armed interval: none between stopTimer and the next startTimer.
C12_AtMostOneTimer ==
    [][/\ OneTimer(timers.dm, dm) /\ OneTimer(timers.gs1, gs1)
       /\ OneTimer(timers'.dm, dm') /\ OneTimer(timers'.gs1, gs1')
       /\ lastOp' \in {"dmStopTimer", "dmStopRotation", "visibilityHidden"} =>
             timers'.dm = 0
       /\ lastOp' = "gs1StopRotation" => timers'.gs1 = 0
       /\ lastOp' = "dmTick" => timers.dm = 1
       /\ lastOp' = "gs1Tick" => timers.gs1 = 1
       /\ (timers.dm = 0 /\ timers'.dm = 0) =>
             (lastOp' # "dmTick" /\ dm'.remaining = dm.remaining)]_vars

\* setInterval in a running session: the old interval replaced by a new one.
C12_Witness ==
    /\ lastOp = "dmSetInterval"
    /\ dm.isRotating
    /\ dm.timerValue = 2
    /\ Len(dm.generatedCodes) >= 2
    /\ timers.dm = 1

\* The values remaining takes while counting down from timerValue = k
\* tenths of a second: k, k - 1, .., 1 tenths.
Countdown(session) ==
    {TickDecrement * j : j \in 1..(session.timerValue \div TickDecrement)}

\* C13: while a timer runs with timerValue = k tenths of a second, a tick
\* takes one tenth of a second off remaining; the tick that finds one tenth
\* left, the k-th since remaining was reset, generates a payload and resets
\* remaining to timerValue, and no other tick generates (DataMatrix and GS1).
C13_TickCadence ==
    [][/\ lastOp' = "dmTick" =>
             /\ dm.remaining \in Countdown(dm)
             /\ dm.remaining = TickDecrement =>
                   /\ Len(dm'.generatedCodes) = Len(dm.generatedCodes) + 1
                   /\ activity'.DM > activity.DM
                   /\ dm'.remaining = dm'.timerValue
             /\ dm.remaining # TickDecrement =>
                   /\ dm'.remaining = dm.remaining - TickDecrement
                   /\ dm'.generatedCodes = dm.generatedCodes
                   /\ UNCHANGED <<activity, screen>>
             /\ dm'.timerValue = dm.timerValue
       /\ lastOp' = "gs1Tick" =>
             /\ gs1.remaining \in Countdown(gs1)
             /\ gs1.remaining = TickDecrement =>
                   /\ gs1'.rotationIndex = gs1.rotationIndex + 1
                   /\ activity'.GS1 = activity.GS1 + 1
                   /\ gs1'.remaining = gs1'.timerValue
             /\ gs1.remaining # TickDecrement =>
                   /\ gs1'.remaining = gs1.remaining - TickDecrement
                   /\ gs1'.rotationIndex = gs1.rotationIndex
                   /\ UNCHANGED <<activity, screen>>
             /\ gs1'.timerValue = gs1.timerValue]_vars

\* The second tick of a two-tick interval has generated.
C13_Witness ==
    /\ lastOp = "dmTick"
    /\ dm.isRotating
    /\ dm.timerValue = 2 * TickDecrement
    /\ dm.remaining = dm.timerValue
    /\ Len(dm.generatedCodes) >= 2

\* The DataMatrix payloads a history entry holds: its primary code and, when
\* the secondary code is a DataMatrix too, that one.
EntryPayloads(e) ==
    {e.code} \cup
    (IF e.secondaryCode # None /\ e.secondaryCode[1].type = "DM"
     THEN {e.secondaryCode[1].code} ELSE {})

\* The payloads of the history after a step that the history before it did
\* not hold: the newly generated ones.
NewPayloads(before, after) ==
    UNION {EntryPayloads(after[j]) : j \in 1..Len(after)}
        \ UNION {EntryPayloads(before[i]) : i \in 1..Len(before)}

\* C14: the activity log takes one State.addToHistory entry for each newly
\* generated DataMatrix payload, and none when a payload is redisplayed from
\* the history (displayFromCache from manualNext, manualPrev or startTimer).
C14_LoggedOncePerGeneration ==
    [][/\ activity'.DM - activity.DM =
              Cardinality(NewPayloads(dm.generatedCodes, dm'.generatedCodes))
       /\ dm'.generatedCodes = dm.generatedCodes => activity'.DM = activity.DM
       /\ (lastOp' = "dmStartTimer"
              \/ (lastOp' \in {"dmManualNext", "dmManualPrev"} /\ AllItemsInHistory)) =>
             activity' = activity]_vars

\* startTimer redisplayed the last entry of a history of two entries and
\* three payloads.
C14_Witness ==
    /\ lastOp = "dmStartTimer"
    /\ Len(dm.generatedCodes) = 2
    /\ dm.codeHistoryIndex = Len(dm.generatedCodes) - 1
    /\ dm.generatedCodes[2].doubleScanMode = "differentDM"
    /\ activity.DM = 1 + Len(dm.generatedCodes) + 1

\* The strategy a checkbox stands for.
StrategyOf(id) ==
    CASE id = "doubleScanSameDM" -> "sameDM"
      [] id = "doubleScanDmEan" -> "dmEan"
      [] id = "doubleScanSameEan" -> "sameEan"
      [] id = "doubleScanDifferentDM" -> "differentDM"

CheckedIds(chk) == {c \in CheckboxIds : chk[c]}

\* C15: after any sequence of check and uncheck events on the four
\* double-scan checkboxes at most one is checked, checking one leaves exactly
\* that one checked, and getActiveDoubleScanMode returns the strategy of the
\* checked one, or null ("none") when none is checked.
C15_OneStrategy ==
    [][/\ Cardinality(CheckedIds(checked')) <= 1
       /\ \A id \in CheckboxIds :
             (lastOp' = "dmDoubleScanChange" /\ ~checked[id]
                   /\ DmDoubleScanChange(id)) =>
                 CheckedIds(checked') = {id}
       /\ \A id \in CheckedIds(checked') :
             GetActiveDoubleScanMode(checked') = StrategyOf(id)
       /\ CheckedIds(checked') = {} =>
             GetActiveDoubleScanMode(checked') = "none"]_vars

\* doubleScanDmEan was checked while another checkbox was: the entry before
\* the last was generated under another strategy.
C15_Witness ==
    /\ lastOp = "dmDoubleScanChange"
    /\ checked["doubleScanDmEan"]
    /\ Len(dm.generatedCodes) >= 2
    /\ dm.generatedCodes[Len(dm.generatedCodes) - 1].doubleScanMode
           \in {"sameDM", "sameEan", "differentDM"}

\* ---------------------------------------------------------------------------
\* C16
\* What an entry of the history put on the screen when it was generated: its
\* primary payload, drawn as EAN-13 when the entry says so, and its secondary
\* payload, if it has one.
ShownWhenGenerated(entry) ==
    [code |-> entry.code,
     displayAsEan |-> entry.primaryDisplayAsEan,
     ean13Code |-> IF entry.primaryDisplayAsEan
                   THEN ExtractEAN13FromDM(entry.code) ELSE [kind |-> "null"],
     secondary |-> entry.secondaryCode,
     barcode |-> entry.barcode]

CursorEntry(d) == d.generatedCodes[d.codeHistoryIndex + 1]

Replays == {"dmManualNext", "dmManualPrev", "dmStartTimer"}

\* C16: a step that appends an entry shows that entry; a step that replays an
\* entry (the history is unchanged and the cursor is on an entry) shows what
\* was shown when that entry was generated, whichever strategy is selected
\* at the time of the replay.
C16_ReplayShowsEntryAsGenerated ==
    [][/\ (Len(dm'.generatedCodes) > 0 /\ dm'.generatedCodes # dm.generatedCodes) =>
              /\ dm'.codeHistoryIndex = Len(dm'.generatedCodes) - 1
              /\ screen'.dm = ShownWhenGenerated(CursorEntry(dm'))
       /\ (lastOp' \in Replays /\ dm'.generatedCodes = dm.generatedCodes
           /\ dm'.codeHistoryIndex \in 0..(Len(dm.generatedCodes) - 1)) =>
              screen'.dm = ShownWhenGenerated(CursorEntry(dm'))]_vars

\* C16 happens: an entry generated under "same EAN" is replayed by the previous
\* button while another strategy is selected.
C16_Witness ==
    /\ lastOp = "dmManualPrev"
    /\ CursorEntry(dm).doubleScanMode = "sameEan"
    /\ GetActiveDoubleScanMode(checked) \notin {"sameEan", "none"}
    /\ screen.dm.displayAsEan
    /\ screen.dm.secondary # None

\* ---------------------------------------------------------------------------
\* C17
SessionOps ==
    {"dmTick", "dmManualNext", "dmManualPrev", "dmStartTimer", "dmStopTimer",
     "dmSetInterval", "dmDoubleScanChange"}

AppendsOne(old, new) ==
    /\ Len(new) = Len(old) + 1
    /\ SubSeq(new, 1, Len(old)) = old

\* C17: inside a session (rotating, and the step is neither startRotation nor
\* stopRotation) every operation leaves generatedCodes as it is or appends
\* exactly one entry at its end; the entries already there keep their place
\* and their content.
C17_HistoryAppendOnly ==
    [][(dm.isRotating /\ lastOp' \in SessionOps) =>
          \/ dm'.generatedCodes = dm.generatedCodes
          \/ AppendsOne(dm.generatedCodes, dm'.generatedCodes)]_vars

\* C17 happens: a session whose history grew to three entries, the last one
\* appended by a toggle of a double-scan checkbox.
C17_Witness ==
    /\ dm.isRotating
    /\ lastOp = "dmDoubleScanChange"
    /\ Len(dm.generatedCodes) = 3

\* ---------------------------------------------------------------------------
\* C18
\* The DataMatrix state before the page was hidden.
BeforeHide == nav.paused[1]

\* C18: on the DataMatrix tab, hiding the page changes nothing but the timer,
\* and after the page is shown again the session items, the generation
\* cursor, the history and the history cursor are what they were before the
\* hide, and a timer that was paused before the hide is still paused.
C18_HideShowOnlyPausesTimer ==
    [][/\ (tab = "datamatrix" /\ lastOp' = "visibilityHidden") =>
              /\ [dm' EXCEPT !.timerInterval = FALSE] = [dm EXCEPT !.timerInterval = FALSE]
              /\ activity' = activity /\ screen' = screen
       /\ (tab = "datamatrix" /\ lastOp' = "visibilityVisible" /\ nav.paused # None) =>
              /\ dm'.rotationList = BeforeHide.rotationList
              /\ dm'.rotationIndex = BeforeHide.rotationIndex
              /\ dm'.generatedCodes = BeforeHide.generatedCodes
              /\ dm'.codeHistoryIndex = BeforeHide.codeHistoryIndex
              /\ ~BeforeHide.timerInterval => ~dm'.timerInterval]_vars

\* The parts of C18 taken one at a time, to tell which ones the handler
\* breaks: the history, the generation cursor, the paused timer.
C18_ShowKeepsHistory ==
    [][(tab = "datamatrix" /\ lastOp' = "visibilityVisible" /\ nav.paused # None) =>
          dm'.generatedCodes = BeforeHide.generatedCodes]_vars

C18_ShowKeepsGenerationCursor ==
    [][(tab = "datamatrix" /\ lastOp' = "visibilityVisible" /\ nav.paused # None
        /\ Len(dm.rotationList) > 1) =>
          dm'.rotationIndex = BeforeHide.rotationIndex]_vars

C18_ShowKeepsPause ==
    [][(tab = "datamatrix" /\ lastOp' = "visibilityVisible" /\ nav.paused # None
        /\ ~BeforeHide.timerInterval) => ~dm'.timerInterval]_vars

C18_HideChangesTimerOnly ==
    [][(tab = "datamatrix" /\ lastOp' = "visibilityHidden") =>
          /\ [dm' EXCEPT !.timerInterval = FALSE] = [dm EXCEPT !.timerInterval = FALSE]
          /\ activity' = activity /\ screen' = screen]_vars

\* ---------------------------------------------------------------------------
\* C19
\* The DataMatrix state before the pause button was pressed.
BeforePause == nav.paused[1]

\* C19: pause changes nothing but the timer; after a pause followed by a
\* resume the item list, the generation cursor, intervalSeconds and the
\* history are what they were before the pause.
C19_PauseResumeKeepsSession ==
    [][/\ lastOp' = "dmStopTimer" =>
              /\ [dm' EXCEPT !.timerInterval = FALSE] = [dm EXCEPT !.timerInterval = FALSE]
              /\ ~dm'.timerInterval
              /\ activity' = activity /\ screen' = screen /\ checked' = checked
       /\ (lastOp = "dmStopTimer" /\ lastOp' = "dmStartTimer") =>
              /\ dm'.rotationList = BeforePause.rotationList
              /\ dm'.rotationIndex = BeforePause.rotationIndex
              /\ dm'.timerValue = BeforePause.timerValue
              /\ dm'.generatedCodes = BeforePause.generatedCodes
              /\ dm'.isRotating = BeforePause.isRotating
              /\ dm'.timerInterval]_vars

\* C19 happens: a running rotation of two items, both in its history, was
\* paused and resumed.
C19_Witness ==
    /\ lastOp = "dmStartTimer"
    /\ nav.paused # None
    /\ BeforePause.timerInterval
    /\ BeforePause.isRotating
    /\ Len(BeforePause.rotationList) = 2
    /\ Len(BeforePause.generatedCodes) = 2
    /\ dm.generatedCodes = BeforePause.generatedCodes

\* ---------------------------------------------------------------------------
\* C20
Gs1FolderOps == {"gs1AddItems", "gs1SelectAll", "gs1DeselectAll", "gs1ClearSelected"}

DmFolderOps ==
    {"libraryAddItems", "librarySelectAll", "libraryDeselectAll", "libraryClearSelected"}

\* The same objects with the same payload data in the same order; the active
\* flag, which the folder and the session list share, is left out.
SameItems(a, b) ==
    [k \in DOMAIN a |-> [a[k] EXCEPT !.active = TRUE]]
        = [k \in DOMAIN b |-> [b[k] EXCEPT !.active = TRUE]]

\* C20: while a rotation runs, selectAll, deselectAll, clearSelected and
\* addItems on the source folder leave the session list with the same items in
\* the same order, leave the cursor, the history and the display as they are,
\* and the payload the session shows next is the one it would have shown.
C20_FolderEditsKeepSession ==
    [][/\ (gs1.isRotating /\ lastOp' \in Gs1FolderOps) =>
              /\ SameItems(gs1.rotationItems, gs1'.rotationItems)
              /\ gs1'.rotationIndex = gs1.rotationIndex
              /\ gs1'.isRotating
              /\ screen' = screen
              /\ Gs1DisplayCode(World').screen.gs1 = Gs1DisplayCode(World).screen.gs1
       /\ (dm.isRotating /\ lastOp' \in DmFolderOps) =>
              /\ SameItems(dm.rotationList, dm'.rotationList)
              /\ dm'.rotationIndex = dm.rotationIndex
              /\ dm'.isRotating
              /\ dm'.generatedCodes = dm.generatedCodes
              /\ screen' = screen
              /\ GenerateAndDisplay(World').screen.dm = GenerateAndDisplay(World).screen.dm]_vars

\* C20 happens: a running GS1 session of two items whose folder was emptied
\* by clearSelected.
C20_Witness ==
    /\ lastOp = "gs1ClearSelected"
    /\ gs1.isRotating
    /\ Len(gs1.rotationItems) = 2
    /\ library.gs1.selected
    /\ library.gs1.items = <<>>

\* The active flag does show through: a session item that deselectAll
\* switched off is still in the session list.
C20_FlagShowsThrough ==
    /\ lastOp = "gs1DeselectAll"
    /\ gs1.isRotating
    /\ Len(gs1.rotationItems) = 2
    /\ \A k \in DOMAIN gs1.rotationItems : ~gs1.rotationItems[k].active

\* ---------------------------------------------------------------------------
\* C21
\* The newest entry of the history, and whether this step generated it in a
\* rotation under the differentDM strategy.
Newest(d) == d.generatedCodes[Len(d.generatedCodes)]

GeneratedDifferentDM ==
    /\ dm'.isRotating
    /\ Len(dm'.generatedCodes) > 0
    /\ dm'.generatedCodes # dm.generatedCodes
    /\ Newest(dm').doubleScanMode = "differentDM"

\* The items of the primary code and of the one after it in the session list.
PrimaryItem(d) == d.rotationList[Newest(d).rotationIdx + 1]

FollowingItem(d) ==
    d.rotationList[((Newest(d).rotationIdx + 1) % Len(d.rotationList)) + 1]

\* The DataMatrix code of an item: its barcode in its template.
IsCodeOf(code, item) ==
    /\ code.kind = "DM"
    /\ code.ai01 = <<0>> \o item.barcode
    /\ code.template = item.template

\* C21 as stated: under differentDM in a rotation of any size the secondary
\* payload is the DataMatrix code of the item after the primary's item, and
\* the two payloads are distinct.
C21_SecondaryIsCodeOfNextItem ==
    [][GeneratedDifferentDM =>
          /\ Newest(dm').secondaryCode # None
          /\ Newest(dm').secondaryCode[1].type = "DM"
          /\ IsCodeOf(Newest(dm').secondaryCode[1].code, FollowingItem(dm'))
          /\ Newest(dm').secondaryCode[1].code # Newest(dm').code]_vars

\* C21 amended: the secondary payload is a DataMatrix code of the barcode of
\* the item after the primary's item (the primary's own item when the list has
\* one item) in the template of the primary's item, and the two payloads are
\* distinct whenever the two barcodes are.
C21_SecondaryHasNextBarcode ==
    [][GeneratedDifferentDM =>
          /\ Newest(dm').secondaryCode # None
          /\ Newest(dm').secondaryCode[1].type = "DM"
          /\ Newest(dm').secondaryCode[1].barcode = Some(FollowingItem(dm').barcode)
          /\ IsCodeOf(Newest(dm').secondaryCode[1].code,
                      [barcode |-> FollowingItem(dm').barcode,
                       template |-> PrimaryItem(dm').template])
          /\ IsCodeOf(Newest(dm').code, PrimaryItem(dm'))
          /\ FollowingItem(dm').barcode # PrimaryItem(dm').barcode =>
                 Newest(dm').secondaryCode[1].code # Newest(dm').code]_vars

\* C21 happens: the last item of a two-item rotation is shown under
\* differentDM; the item after it is the first one.
C21_Witness ==
    /\ dm.isRotating
    /\ Len(dm.rotationList) = 2
    /\ dm.codeHistoryIndex = Len(dm.generatedCodes) - 1
    /\ Len(dm.generatedCodes) > 0
    /\ Newest(dm).doubleScanMode = "differentDM"
    /\ Newest(dm).rotationIdx = 1
    /\ Newest(dm).secondaryCode[1].code.ai01 = <<0>> \o dm.rotationList[1].barcode

\* The one-item rotation: the item after the primary's item is that item.
C21_OneItemWitness ==
    /\ dm.isRotating
    /\ Len(dm.rotationList) = 1
    /\ Len(dm.generatedCodes) > 0
    /\ Newest(dm).doubleScanMode = "differentDM"
    /\ Newest(dm).secondaryCode[1].code.ai01 = Newest(dm).code.ai01

\* ---------------------------------------------------------------------------
\* C22
\* The state with a drawing library that works.
Works == [World EXCEPT !.renderer.throws = FALSE]

\* The step left the session, the timers and the log as w has them.
SameSession(w) ==
    /\ dm' = w.dm
    /\ timers' = w.timers
    /\ activity' = w.activity
    /\ demoIndex' = w.demoIndex

\* C22: when the drawing library throws during generateAndDisplay or
\* displayFromCache, every handler leaves the generation cursor, the history,
\* the history cursor and the timer exactly as it does when the drawing
\* succeeds, and a timer that ran before a tick or a navigation still runs.
C22_RenderFailureContained ==
    [][renderer.throws =>
          /\ lastOp' = "dmTick" => SameSession(TimerCallback(Works))
          /\ lastOp' = "dmManualNext" => SameSession(ManualNext(Works))
          /\ lastOp' = "dmManualPrev" => SameSession(ManualPrev(Works))
          /\ lastOp' = "dmStartTimer" => SameSession(StartTimer(Works))
          /\ lastOp' = "dmStopRotation" => SameSession(StopRotation(Works))
          /\ \A folder \in DmFolders :
                (lastOp' = "dmStartRotation" /\ DmStartRotation(folder)) =>
                    SameSession(StartRotation(Works, folder))
          /\ (lastOp' \in {"dmTick", "dmManualNext", "dmManualPrev"} /\ dm.timerInterval) =>
                /\ dm'.timerInterval
                /\ timers'.dm = 1]_vars

\* C22 happens: the timer generated the second code of a rotation while the
\* drawing library threw, and it still runs.
C22_Witness ==
    /\ lastOp = "dmTick"
    /\ renderer.throws
    /\ renderer.failed
    /\ dm.isRotating
    /\ Len(dm.generatedCodes) = 2
    /\ dm.timerInterval

\* ---------------------------------------------------------------------------
\* C23
DmOps ==
    {"dmTick", "dmManualNext", "dmManualPrev", "dmStartTimer", "dmStopTimer",
     "dmSetInterval", "dmStartRotation", "dmStopRotation", "dmDoubleScanChange"}

Gs1Ops ==
    {"gs1Tick", "gs1ManualNext", "gs1ManualPrev", "gs1SetInterval",
     "gs1StartRotation", "gs1StopRotation"}

WeightCall == lastOp = "generateWeightBarcode"

\* generateWeightBarcode('77', '12345', 1500)
ExampleWeightCall ==
    /\ WeightCall
    /\ enc.in.prefix = "77"
    /\ enc.in.plu = <<"1", "2", "3", "4", "5">>
    /\ enc.in.weight = 1500
    /\ enc.in.discount = None

LayoutLength(prefix) == IF prefix = "77" THEN 16 ELSE IF prefix = "49" THEN 19 ELSE 13

Last(s) == s[Len(s)]

\* The check digit of a layout over the characters before the last.
CheckDigitOf(code) ==
    LET body == SubSeq(code, 1, Len(code) - 1)
    IN IF code[1] = "4" THEN Str(CalcControlCore(Digits(body)))
       ELSE Str(CalcControlEAN13(Digits(body)))

\* C26: the length of a weight barcode follows from the prefix alone, 16
\* characters ending in '0' for '77', 19 for '49' and 13 for '22', the last
\* character being the check digit, whatever the PLU, weight and discount.
C26_LengthByPrefix ==
    (WeightCall /\ enc.in.prefix \in {"77", "49", "22"}) =>
        /\ Len(enc.out.code) = LayoutLength(enc.in.prefix)
        /\ enc.in.prefix = "77" => Last(enc.out.code) = "0"
        /\ enc.in.prefix # "77" => <<Last(enc.out.code)>> = CheckDigitOf(enc.out.code)

\* A PLU of 7 digits with the prefix '77' gives 17 characters.
C26_OverlongCode ==
    /\ WeightCall
    /\ enc.in.prefix = "77"
    /\ Len(enc.in.plu) = 7
    /\ enc.in.weight = 1500
    /\ Len(enc.out.code) = 17

\* C27: a prefix other than '77', '49' and '22' makes generateWeightBarcode
\* fail with InvalidPrefix; no payload is returned.
C27_UnknownPrefixFails ==
    (WeightCall /\ enc.in.prefix \notin {"77", "49", "22"}) =>
        "code" \notin DOMAIN enc.out

\* generateWeightBarcode('99', '12345', 1500) returns an EAN-13 code that
\* starts with '22'.
C27_UnknownPrefixEncoded ==
    /\ WeightCall
    /\ enc.in.prefix = "99"
    /\ enc.in.plu = <<"1", "2", "3", "4", "5">>
    /\ enc.in.weight = 1500
    /\ enc.out.format = "EAN13"
    /\ SubSeq(enc.out.code, 1, 12) = <<"2", "2", "1", "2", "3", "4", "5", "0", "1", "5", "0", "0">>


\* ---------------------------------------------------------------------------
\* The GS1 codes
\* ---------------------------------------------------------------------------
\* The last step was a call of generateGS1Code.
Gs1Call == lastOp = "generateGS1Code"

\* The goodsId has a digit in it.
HasDigit(goodsId) ==
    /\ goodsId # None
    /\ \E i \in 1..Len(goodsId[1]) : goodsId[1][i] \in {DigitChars[d] : d \in 1..10}

\* C28: generateGS1Code returns a payload exactly when the goodsId keeps at
\* least one digit after its non-digits are stripped and the type is 'piece' or
\* 'weight'; otherwise it throws.
C28_PayloadIffValid ==
    Gs1Call =>
        /\ enc.out.ok <=> (/\ HasDigit(enc.in.params.goodsId)
                           /\ enc.in.params.type \in {"piece", "weight"})
        /\ enc.out.ok => enc.out.code # <<>> /\ enc.out.error = ""
        /\ ~enc.out.ok => enc.out.code = <<>> /\ enc.out.error # ""

\* A goodsId without a digit is refused although the type is valid.
C28_Witness ==
    /\ Gs1Call
    /\ enc.in.params.goodsId = Some(<<"a", "-">>)
    /\ enc.in.params.type = "piece"
    /\ enc.out.error = "GoodsId is required"

C28_PayloadWitness ==
    /\ Gs1Call
    /\ enc.in.params.goodsId = Some(<<"1", "2", "x", "3">>)
    /\ enc.in.params.type = "weight"
    /\ enc.out.ok

\* The discount of the call, 0 if none is given.
DiscountOf(params) == IF params.discount = None THEN 0 ELSE params.discount[1]

\* A unique ID is supplied: a string that is not empty.
Supplied(uniqueId) == uniqueId # None /\ uniqueId # Some(<<>>)

\* The unique ID 8 draws stand for in 'A'..'Z', '0'..'9'.
DrawnId(draws) ==
    [i \in 1..8 |->
        <<"A", "B", "C", "D", "E", "F", "G", "H", "I", "J", "K", "L", "M", "N",
          "O", "P", "Q", "R", "S", "T", "U", "V", "W", "X", "Y", "Z", "0", "1",
          "2", "3", "4", "5", "6", "7", "8", "9">>[draws[i] + 1]]

\* The call of C29: a piece, a discount, a fractional quantity, and a
\* decimal position that is the quantity's own if one is given.
FractionalPieceCall ==
    /\ Gs1Call
    /\ HasDigit(enc.in.params.goodsId)
    /\ enc.in.params.type = "piece"
    /\ DiscountOf(enc.in.params) > 0
    /\ enc.in.params.quantity # None
    /\ enc.in.params.quantity[1].dp > 0
    /\ enc.in.params.decimalPosition \in {None, Some(enc.in.params.quantity[1].dp)}

\* The GoodsId of a goodsId string: its digits, the first 8 at most.
GoodsDigits(goodsId) ==
    LET digits == SelectSeq(goodsId, LAMBDA c : c \in {DigitChars[d] : d \in 1..10})
    IN [i \in 1..(IF Len(digits) < 8 THEN Len(digits) ELSE 8) |-> digits[i]]

\* value as at least width characters, zeros in front.
Padded(value, width) ==
    [i \in 1..(IF Len(value) < width THEN width - Len(value) ELSE 0) |-> "0"] \o value

RECURSIVE SegmentsOf(_)
SegmentsOf(code) ==
    IF \A i \in 1..Len(code) : code[i] # "GS" THEN <<>>
    ELSE LET i == CHOOSE k \in 1..Len(code) :
                      code[k] = "GS" /\ \A j \in 1..(k - 1) : code[j] # "GS"
         IN <<SubSeq(code, 1, i - 1)>> \o SegmentsOf(SubSeq(code, i + 1, Len(code)))

\* The contents of the parts of the payload that start with the AI.
ValuesOf(code, ai) ==
    LET segs == SegmentsOf(code)
    IN {SubSeq(segs[i], Len(ai) + 1, Len(segs[i])) :
           i \in {k \in 1..Len(segs) :
                     Len(segs[k]) >= Len(ai) /\ SubSeq(segs[k], 1, Len(ai)) = ai}}

\* C30: for both types the payload has AI 98 and AI 21 exactly when the
\* discount is above 0; the unique ID is the caller's when one is supplied, and
\* otherwise one of 8 characters of A-Z and 0-9.
C30_DiscountAndUniqueId ==
    (Gs1Call /\ enc.out.ok) =>
        LET p == enc.in.params
            discounts == ValuesOf(enc.out.code, <<"9", "8">>)
            ids == ValuesOf(enc.out.code, <<"2", "1">>)
        IN /\ (discounts # {}) <=> (DiscountOf(p) > 0)
           /\ (ids # {}) <=> (DiscountOf(p) > 0)
           /\ DiscountOf(p) > 0 =>
                 /\ Cardinality(ids) = 1
                 /\ Supplied(p.uniqueId) => ids = {p.uniqueId[1]}
                 /\ ~Supplied(p.uniqueId) =>
                        \A id \in ids :
                            /\ Len(id) = 8
                            /\ \A i \in 1..8 : \E d \in 0..35 : id[i] = DrawnId([k \in 1..8 |-> d])[1]

\* A weight code with a discount and the caller's ID, the draws being others.
C30_Witness ==
    /\ Gs1Call
    /\ enc.out.ok
    /\ enc.in.params.type = "weight"
    /\ enc.in.params.discount = Some(10)
    /\ enc.in.params.uniqueId = Some(<<"A", "B", "C", "1", "2", "3", "4", "5">>)
    /\ enc.in.draws = <<25, 25, 25, 25, 35, 35, 35, 35>>
    /\ ValuesOf(enc.out.code, <<"2", "1">>) = {<<"A", "B", "C", "1", "2", "3", "4", "5">>}

\* A piece code with a discount and an ID of the generator's.
C30_GeneratedIdWitness ==
    /\ Gs1Call
    /\ enc.out.ok
    /\ enc.in.params.type = "piece"
    /\ enc.in.params.discount = Some(10)
    /\ enc.in.params.uniqueId = None
    /\ ValuesOf(enc.out.code, <<"2", "1">>) = {<<"Z", "Z", "Z", "Z", "9", "9", "9", "9">>}

\* A code without a discount has neither AI.
C30_NoDiscountWitness ==
    /\ Gs1Call
    /\ enc.out.ok
    /\ enc.in.params.discount = Some(0)
    /\ enc.in.params.uniqueId # None
    /\ ValuesOf(enc.out.code, <<"2", "1">>) = {}
    /\ ValuesOf(enc.out.code, <<"9", "8">>) = {}

\* The last step made an item in addItems().
ItemMade == lastOp = "addItemsItem" /\ enc.out.made

\* generateGS1Code on the stored fields of the item.
Recomputed(item, draws) ==
    GenerateGS1Code([goodsId |-> Some(item.goodsId), type |-> item.type,
                     quantity |-> item.quantity, weight |-> item.weight,
                     discount |-> Some(item.discount), uniqueId |-> item.uniqueId,
                     decimalPosition |-> Some(item.decimalPosition)], draws)

\* C24: an item addItems makes can be recomputed: generateGS1Code on its
\* goodsId, type, quantity or weight, discount, uniqueId and decimalPosition
\* returns item.code, and with a discount above 0 the stored uniqueId is the
\* one in AI 21 of item.code.
C24_ItemRecomputable ==
    ItemMade =>
        /\ \A draws \in Draws :
              /\ Recomputed(enc.out, draws).ok
              /\ Recomputed(enc.out, draws).code = enc.out.code
        /\ enc.out.discount > 0 =>
              ValuesOf(enc.out.code, <<"2", "1">>) = {enc.out.uniqueId[1]}

\* Without a discount the item is recomputable.
C24_RecomputableWithoutDiscount ==
    (ItemMade /\ enc.out.discount = 0) =>
        \A draws \in Draws :
            /\ Recomputed(enc.out, draws).ok
            /\ Recomputed(enc.out, draws).code = enc.out.code

\* An item with a discount whose code carries 'ABC12345' and whose stored
\* uniqueId is 'ZZZZ9999'.
C24_TwoIds ==
    /\ ItemMade
    /\ enc.out.discount = 10
    /\ ValuesOf(enc.out.code, <<"2", "1">>) = {<<"A", "B", "C", "1", "2", "3", "4", "5">>}
    /\ enc.out.uniqueId = Some(<<"Z", "Z", "Z", "Z", "9", "9", "9", "9">>)


\* ---------------------------------------------------------------------------
\* The invariants of a rotation
\* ---------------------------------------------------------------------------
\* C35: in a DataMatrix rotation of N items the i-th history entry (from 0)
\* records the source index i mod N, every recorded source index is in
\* 0..N-1, and the generation cursor is history.length mod N.
C35_HistoryInSourceOrder ==
    (dm.isRotating /\ Len(dm.rotationList) > 0) =>
        LET N == Len(dm.rotationList)
        IN /\ \A i \in 1..Len(dm.generatedCodes) :
                 /\ dm.generatedCodes[i].rotationIdx = (i - 1) % N
                 /\ dm.generatedCodes[i].rotationIdx \in 0..(N - 1)
           /\ dm.rotationIndex = Len(dm.generatedCodes) % N

\* A rotation of two items whose history has gone round once.
C35_Witness ==
    /\ dm.isRotating
    /\ Len(dm.rotationList) = 2
    /\ Len(dm.generatedCodes) = 3
    /\ dm.generatedCodes[3].rotationIdx = 0
    /\ dm.rotationIndex = 1

\* C36: in either controller isRotating implies a session list that is not
\* empty, and in the DataMatrix controller the generation cursor is then an
\* index of the list, so generateAndDisplay never reads outside the list and
\* never takes a remainder by zero.
C36_RotatingHasItems ==
    /\ dm.isRotating =>
          /\ Len(dm.rotationList) > 0
          /\ 0 <= dm.rotationIndex
          /\ dm.rotationIndex < Len(dm.rotationList)
    /\ gs1.isRotating => Len(gs1.rotationItems) > 0

\* A DataMatrix rotation whose cursor has wrapped to 0, and a GS1 one.
C36_Witness ==
    /\ dm.isRotating
    /\ Len(dm.rotationList) = 2
    /\ Len(dm.generatedCodes) = 2
    /\ dm.rotationIndex = 0

C36_Gs1Witness == gs1.isRotating /\ Len(gs1.rotationItems) = 2 /\ gs1.rotationIndex = 3


\* ---------------------------------------------------------------------------
\* startTimer and the history cursor
\* ---------------------------------------------------------------------------
\* C38: startTimer called while an older history entry is viewed moves the
\* history cursor to the last entry and redisplays that entry without
\* generating; called while the last entry is viewed it changes neither the
\* history nor the history cursor.
C38_StartTimerJumpsToLastEntry ==
    [][lastOp' = "dmStartTimer" =>
          LET len == Len(dm.generatedCodes)
          IN /\ dm'.generatedCodes = dm.generatedCodes
             /\ activity' = activity
             /\ dm'.rotationIndex = dm.rotationIndex
             /\ (len > 0 /\ dm.codeHistoryIndex < len - 1) =>
                    /\ dm'.codeHistoryIndex = len - 1
                    /\ screen'.dm = ShownWhenGenerated(dm.generatedCodes[len])
             /\ dm.codeHistoryIndex = len - 1 =>
                    /\ dm'.codeHistoryIndex = dm.codeHistoryIndex
                    /\ screen' = screen]_vars

\* The play button was pressed while the first of three entries was viewed.
C38_Witness ==
    /\ lastOp = "dmStartTimer"
    /\ nav.paused # None
    /\ Len(nav.paused[1].generatedCodes) = 3
    /\ nav.paused[1].codeHistoryIndex = 0
    /\ dm.codeHistoryIndex = 2
    /\ dm.generatedCodes = nav.paused[1].generatedCodes

\* The play button was pressed while the last entry was viewed.
C38_LastEntryWitness ==
    /\ lastOp = "dmStartTimer"
    /\ nav.paused # None
    /\ Len(nav.paused[1].generatedCodes) = 2
    /\ nav.paused[1].codeHistoryIndex = 1
    /\ dm.codeHistoryIndex = 1


\* ---------------------------------------------------------------------------
\* A checkbox change generates once
\* ---------------------------------------------------------------------------
\* C39: every change of a double-scan checkbox, check or uncheck, triggers
\* exactly one generateAndDisplay: during a rotation the generation cursor
\* advances by one item and the history grows by exactly one entry, recorded
\* with the strategy selected after the change.
C39_ChangeGeneratesOnce ==
    [][\A id \in CheckboxIds :
          (lastOp' = "dmDoubleScanChange" /\ dm.isRotating /\ DmDoubleScanChange(id)) =>
              LET N == Len(dm.rotationList)
                  len == Len(dm.generatedCodes)
                  selected == IF checked[id] THEN "none" ELSE StrategyOf(id)
              IN /\ dm'.rotationIndex = (dm.rotationIndex + 1) % N
                 /\ Len(dm'.generatedCodes) = len + 1
                 /\ SubSeq(dm'.generatedCodes, 1, len) = dm.generatedCodes
                 /\ dm'.generatedCodes[len + 1].doubleScanMode = selected
                 /\ dm'.generatedCodes[len + 1].rotationIdx = dm.rotationIndex
                 /\ dm'.generatedCodes[len + 1].barcode
                        = dm.rotationList[dm.rotationIndex + 1].barcode]_vars

\* In a rotation of two items a checkbox was checked and unchecked again.
C39_Witness ==
    /\ lastOp = "dmDoubleScanChange"
    /\ dm.isRotating
    /\ Len(dm.rotationList) = 2
    /\ Len(dm.generatedCodes) = 3
    /\ dm.generatedCodes[2].doubleScanMode = "sameDM"
    /\ dm.generatedCodes[3].doubleScanMode = "none"
    /\ dm.rotationIndex = 1

\* A checkbox was checked while another was: the entry has the new strategy.
C39_SwitchWitness ==
    /\ lastOp = "dmDoubleScanChange"
    /\ dm.isRotating
    /\ Len(dm.generatedCodes) = 3
    /\ dm.generatedCodes[2].doubleScanMode = "sameEan"
    /\ dm.generatedCodes[3].doubleScanMode = "dmEan"


\* ---------------------------------------------------------------------------
\* The GS1 carousel by hand
\* ---------------------------------------------------------------------------
\* The index (from 0) of the item the GS1 tab shows.
Gs1Shown(scr) == scr.gs1[1].counter - 1

\* From the state as it is, manualNext() then manualPrev(), and the reverse,
\* show the item that is shown now.
Gs1RoundTrips ==
    (Len(gs1.rotationItems) >= 1 /\ screen.gs1 # None) =>
        /\ Gs1ManualPrev(Gs1ManualNext(World)).screen.gs1 = screen.gs1
        /\ Gs1ManualNext(Gs1ManualPrev(World)).screen.gs1 = screen.gs1

\* C40: in the GS1 carousel of N >= 1 items manualNext() shows the item that
\* cyclically follows the one shown and manualPrev() the one that cyclically
\* precedes it, so manualNext() then manualPrev(), and the reverse, show the
\* same item again; the index shown is in 0..N-1 although rotationIndex
\* grows without being reduced modulo N.
C40_Gs1NextPrevCyclic ==
    [][LET N == Len(gs1.rotationItems)
       IN /\ (lastOp' = "gs1ManualNext" /\ N >= 1) =>
                 /\ Gs1Shown(screen') = (Gs1Shown(screen) + 1) % N
                 /\ screen'.gs1[1].code = gs1.rotationItems[Gs1Shown(screen') + 1].code
          /\ (lastOp' = "gs1ManualPrev" /\ N >= 1) =>
                 /\ Gs1Shown(screen') = (Gs1Shown(screen) - 1 + N) % N
                 /\ screen'.gs1[1].code = gs1.rotationItems[Gs1Shown(screen') + 1].code
          /\ (gs1' # gs1 /\ Len(gs1'.rotationItems) >= 1) =>
                 /\ Gs1Shown(screen') \in 0..(Len(gs1'.rotationItems) - 1)
                 /\ Gs1RoundTrips']_vars

\* manualPrev() went from the first of two items round to the second, and
\* rotationIndex is the length of the list.
C40_Witness ==
    /\ lastOp = "gs1ManualPrev"
    /\ Len(gs1.rotationItems) = 2
    /\ Gs1Shown(screen) = 1
    /\ gs1.rotationIndex = 2

\* manualNext() showed the first item again, rotationIndex being 3.
C40_NextWitness ==
    /\ lastOp = "gs1ManualNext"
    /\ Len(gs1.rotationItems) = 2
    /\ Gs1Shown(screen) = 0
    /\ gs1.rotationIndex = 3


\* ---------------------------------------------------------------------------
\* The timers go round the session
\* ---------------------------------------------------------------------------
\* The DataMatrix rotation runs on its timer, j entries are in the history,
\* and the log has room for the next.
DmRunningAt(j) ==
    /\ dm.isRotating
    /\ dm.timerInterval
    /\ timers.dm > 0
    /\ tab = "datamatrix"
    /\ Len(dm.generatedCodes) = j
    /\ Logged(World) < MaxLog

\* Entry j + 1 is in the history and on the screen, and it is of the item
\* that follows in source order.
DmShowsNext(j) ==
    /\ dm.isRotating
    /\ Len(dm.generatedCodes) = j + 1
    /\ dm.codeHistoryIndex = j
    /\ screen.dm.barcode = dm.rotationList[(j % Len(dm.rotationList)) + 1].barcode
    /\ GtinOf(screen.dm.code) = dm.rotationList[(j % Len(dm.rotationList)) + 1].barcode

\* The GS1 carousel runs on its timer, r items were shown, and the log and
\* the index have room for the next.
Gs1RunningAt(r) ==
    /\ gs1.isRotating
    /\ gs1.timerInterval
    /\ timers.gs1 > 0
    /\ tab = "gs1pack"
    /\ gs1.rotationIndex = r
    /\ r < MaxGs1Index
    /\ Logged(World) < MaxLog

Gs1ShowsNext(r) ==
    /\ gs1.isRotating
    /\ gs1.rotationIndex = r + 1
    /\ screen.gs1 # None
    /\ screen.gs1[1].code = gs1.rotationItems[(r % Len(gs1.rotationItems)) + 1].code

\* C37: while the DataMatrix timer runs and neither manual navigation nor a
\* stop intervenes, the ticks show every item of the session, each again and
\* again and in source order, if the tick fires fairly; the same holds for
\* the GS1 carousel. Within the bounds: from every state of a running
\* rotation the item next in source order is shown eventually.
C37_TicksGoRound ==
    /\ \A j \in 1..MaxLog : DmRunningAt(j) ~> DmShowsNext(j)
    /\ \A r \in 1..MaxGs1Index : Gs1RunningAt(r) ~> Gs1ShowsNext(r)

\* The timer took a rotation of two items round to the first item again.
C37_Witness ==
    /\ lastOp = "dmTick"
    /\ dm.isRotating
    /\ Len(dm.rotationList) = 2
    /\ Len(dm.generatedCodes) = 3
    /\ screen.dm.barcode = dm.rotationList[1].barcode

C37_Gs1Witness ==
    /\ lastOp = "gs1Tick"
    /\ gs1.isRotating
    /\ Len(gs1.rotationItems) = 2
    /\ gs1.rotationIndex = 3
    /\ screen.gs1[1].code = gs1.rotationItems[1].code


\* ---------------------------------------------------------------------------
\* generateSimple
\* ---------------------------------------------------------------------------
\* The last step was a call of generateSimple with the type 'EAN13'.
SimpleEan13Call == lastOp = "generateSimple" /\ enc.in.type = "EAN13"

\* The string is n characters, all of them digits.
AllDigits(s, n) ==
    /\ Len(s) = n
    /\ \A i \in 1..n : s[i] \in {"0", "1", "2", "3", "4", "5", "6", "7", "8", "9"}

\* The string without its leading and trailing blanks.
Trimmed(s) ==
    IF \A i \in 1..Len(s) : s[i] = " " THEN <<>>
    ELSE LET first == CHOOSE i \in 1..Len(s) :
                          s[i] # " " /\ \A j \in 1..(i - 1) : s[j] = " "
             last == CHOOSE i \in 1..Len(s) :
                         s[i] # " " /\ \A j \in (i + 1)..Len(s) : s[j] = " "
         IN SubSeq(s, first, last)

\* For 12 digits d the code is d and one check digit, and that code comes
\* back unchanged when it is submitted again.
Ean13Appended(d, out) ==
    /\ AllDigits(out.code, 13)
    /\ SubSeq(out.code, 1, 12) = d
    /\ GenerateSimple(out.code, "EAN13").code = out.code

\* C31 as stated: for every string d of 12 digits generateSimple(d,
\* 'EAN13').code is d and one check digit, which submitted again with the type
\* 'EAN13' comes back unchanged; any value that is not exactly 12 digits is
\* returned trimmed and otherwise unchanged.
C31_SimpleAsStated ==
    SimpleEan13Call =>
        /\ AllDigits(enc.in.value, 12) => Ean13Appended(enc.in.value, enc.out)
        /\ ~AllDigits(enc.in.value, 12) => enc.out.code = Trimmed(enc.in.value)

\* C31, amended: the same, for the value as it is once trimmed: 12 digits get
\* the check digit, and any value that once trimmed is not exactly 12 digits
\* is returned trimmed and otherwise unchanged.
C31_SimpleIdempotent ==
    SimpleEan13Call =>
        /\ AllDigits(enc.in.value, 12) => Ean13Appended(enc.in.value, enc.out)
        /\ AllDigits(Trimmed(enc.in.value), 12) =>
               Ean13Appended(Trimmed(enc.in.value), enc.out)
        /\ ~AllDigits(Trimmed(enc.in.value), 12) =>
               enc.out.code = Trimmed(enc.in.value)

\* generateSimple('590123412345', 'EAN13') gave '5901234123457'.
C31_Witness ==
    /\ SimpleEan13Call
    /\ enc.in.value = <<"5", "9", "0", "1", "2", "3", "4", "1", "2", "3", "4", "5">>
    /\ enc.out.code = <<"5", "9", "0", "1", "2", "3", "4", "1", "2", "3", "4", "5", "7">>

\* The 13 digits came back as they were.
C31_ResubmittedWitness ==
    /\ SimpleEan13Call
    /\ AllDigits(enc.in.value, 13)
    /\ enc.out.code = enc.in.value

\* 12 digits after a blank: not 12 digits as given, and not returned as
\* trimmed only.
C31_BlankWitness ==
    /\ SimpleEan13Call
    /\ Len(enc.in.value) = 13
    /\ enc.in.value[1] = " "
    /\ AllDigits(enc.out.code, 13)


\* ---------------------------------------------------------------------------
\* GTIN -> DataMatrix -> EAN-13
\* ---------------------------------------------------------------------------
\* 13 digits of which the last is the EAN-13 check digit of the others.
ValidGtin13(g) ==
    /\ Len(g) = 13
    /\ \A i \in 1..13 : g[i] \in 0..9
    /\ g[13] = (10 - ((g[1] + g[3] + g[5] + g[7] + g[9] + g[11]
                       + 3 * (g[2] + g[4] + g[6] + g[8] + g[10] + g[12])) % 10)) % 10

GtinChars(g) ==
    [i \in 1..Len(g) |-> <<"0", "1", "2", "3", "4", "5", "6", "7", "8", "9">>[g[i] + 1]]

\* The payload embeds AI 01 followed by g padded to 14 digits.
EmbedsAi01(code, g) ==
    \E i \in 1..(Len(code) - 15) :
        SubSeq(code, i, i + 15) = <<"0", "1", "0">> \o GtinChars(g)

\* The text has a '01' followed by 14 digits somewhere.
HasAi01(code) ==
    \E i \in 1..(Len(code) - 15) :
        /\ SubSeq(code, i, i + 1) = <<"0", "1">>
        /\ \A k \in (i + 2)..(i + 15) :
               code[k] \in {"0", "1", "2", "3", "4", "5", "6", "7", "8", "9"}

\* C32: for every valid 13-digit GTIN g and every template that embeds AI 01
\* followed by g padded to 14 digits, extractEAN13FromDM(generateDM(g,
\* templateId).code) is g; extractEAN13FromDM returns null when the payload
\* has no '01' followed by 14 digits.
C32_GtinRoundTrip ==
    /\ (/\ lastOp = "generateDM"
        /\ enc.in.barcode # None
        /\ ValidGtin13(enc.in.barcode[1])
        /\ EmbedsAi01(enc.out.code, enc.in.barcode[1]))
           => /\ enc.out.ean.kind = "EAN13"
              /\ enc.out.ean.code = GtinChars(enc.in.barcode[1])
    /\ (lastOp = "extractEAN13FromDM" /\ ~HasAi01(enc.in.dmCode))
           => enc.out.kind = "null"

\* 4810099003310 went through the second template and came back.
C32_Witness ==
    /\ lastOp = "generateDM"
    /\ enc.in.barcode = Some(<<4, 8, 1, 0, 0, 9, 9, 0, 0, 3, 3, 1, 0>>)
    /\ enc.in.templateId = "type2"
    /\ EmbedsAi01(enc.out.code, enc.in.barcode[1])
    /\ enc.out.ean.code = <<"4", "8", "1", "0", "0", "9", "9", "0", "0", "3", "3", "1", "0">>

\* A payload with '01' and 13 digits only gave null.
C32_NullWitness ==
    /\ lastOp = "extractEAN13FromDM"
    /\ Len(enc.in.dmCode) = 17
    /\ ~HasAi01(enc.in.dmCode)
    /\ enc.out.kind = "null"

\* A GTIN whose check digit is wrong does not come back: the digit is
\* recomputed.
C32_InvalidGtinWitness ==
    /\ lastOp = "generateDM"
    /\ enc.in.barcode # None
    /\ ~ValidGtin13(enc.in.barcode[1])
    /\ enc.out.ean.kind = "EAN13"
    /\ enc.out.ean.code # GtinChars(enc.in.barcode[1])


\* ---------------------------------------------------------------------------
\* generateFromConfig
\* ---------------------------------------------------------------------------
\* The digits of the value are no more than the field is wide, for every
\* field of the configuration.
ValuesFit(typeId, values) ==
    \A k \in 1..Len(BARCODE_CONFIGS[typeId].fields) :
        LET field == BARCODE_CONFIGS[typeId].fields[k]
        IN Cardinality({i \in 1..Len(values[field.name]) :
               values[field.name][i] \in {"0", "1", "2", "3", "4", "5", "6", "7", "8", "9"}})
           <= field.length

\* The last step was generateFromConfig with simulateError set, for a
\* configuration and values that fit.
SimulatedErrorCall ==
    /\ lastOp = "generateFromConfig"
    /\ enc.in.simulateError
    /\ enc.in.typeId \in DOMAIN BARCODE_CONFIGS
    /\ ValuesFit(enc.in.typeId, enc.in.values)

\* The code is the one without simulateError up to its last character, and
\* there it has another digit.
OnlyCheckDigitDiffers(code, plain) ==
    /\ Len(code) = Len(plain)
    /\ Len(code) >= 1
    /\ SubSeq(code, 1, Len(code) - 1) = SubSeq(plain, 1, Len(plain) - 1)
    /\ code[Len(code)] \in {"0", "1", "2", "3", "4", "5", "6", "7", "8", "9"}
    /\ code[Len(code)] # plain[Len(plain)]

\* C33 as stated: for every configuration and values that fit their widths
\* the code with simulateError ends in a check digit other than that of the
\* code without it.
C33_SimulatedErrorAlwaysDiffers ==
    SimulatedErrorCall =>
        /\ enc.out.kind = "code"
        /\ OnlyCheckDigitDiffers(enc.out.code,
               GenerateFromConfig(enc.in.typeId, enc.in.values, FALSE, enc.in.random).code)

\* C33, amended: for every configuration whose control character is computed
\* the code with simulateError ends in a check digit other than that of the
\* code without it; where the configuration fixes the control character the
\* two codes are the same.
C33_SimulatedErrorDiffers ==
    SimulatedErrorCall =>
        LET plain == GenerateFromConfig(enc.in.typeId, enc.in.values, FALSE, enc.in.random)
        IN /\ enc.out.kind = "code"
           /\ plain.kind = "code"
           /\ BARCODE_CONFIGS[enc.in.typeId].fixedControl = None
                  => OnlyCheckDigitDiffers(enc.out.code, plain.code)
           /\ BARCODE_CONFIGS[enc.in.typeId].fixedControl # None
                  => enc.out.code = plain.code

\* The first random digit was the correct check digit and the second one was
\* taken.
C33_Witness ==
    /\ SimulatedErrorCall
    /\ BARCODE_CONFIGS[enc.in.typeId].fixedControl = None
    /\ <<"0", "1", "2", "3", "4", "5", "6", "7", "8", "9">>[enc.in.random[1] + 1]
           = GenerateFromConfig(enc.in.typeId, enc.in.values, FALSE, enc.in.random).code
                 [Len(enc.out.code)]
    /\ enc.out.code[Len(enc.out.code)]
           = <<"0", "1", "2", "3", "4", "5", "6", "7", "8", "9">>[enc.in.random[2] + 1]

\* The configuration with the fixed control character: the code with
\* simulateError still ends in '0'.
C33_FixedControlWitness ==
    /\ SimulatedErrorCall
    /\ enc.in.typeId = "code128_16_weight"
    /\ enc.out.code = <<"7", "7", "0", "1", "2", "3", "4", "5",
                        "0", "0", "0", "1", "5", "0", "0", "0">>


\* ---------------------------------------------------------------------------
\* addItems: entries that cannot be generated
\* ---------------------------------------------------------------------------
\* The GoodsIds of the form that addItems keeps: the digits of each line, where
\* there are 1 to 8 of them.
KeptGoodsIds(lines) ==
    SelectSeq([k \in 1..Len(lines) |->
                  SelectSeq(lines[k], LAMBDA c :
                      c \in {"0", "1", "2", "3", "4", "5", "6", "7", "8", "9"})],
              LAMBDA c : Len(c) \in 1..8)

\* generateGS1Code throws for the entry: the GoodsId is there, so it throws
\* exactly when the type is neither 'piece' nor 'weight'.
EntryThrows(type) == type \notin {"piece", "weight"}

\* The entries of the batch, Len(KeptGoodsIds) * variations of them, and those
\* for which generateGS1Code throws.
BatchEntries == Len(KeptGoodsIds(enc.in.lines)) * enc.in.variations
BatchFailed == IF EntryThrows(enc.in.type) THEN BatchEntries ELSE 0

\* addItems ran and generateGS1Code threw for at least one entry.
BatchWithFailure == lastOp = "addItems" /\ BatchFailed >= 1

\* C34: an exception of generateGS1Code for one entry does not abort the
\* batch: every other entry is generated and added to the folder, the failed
\* entry is not added, and the failed entries are counted (the number of
\* failed entries is part of what addItems reports).
C34_FailedEntriesSkippedAndCounted ==
    BatchWithFailure =>
        /\ Len(enc.out.folder) = Len(enc.in.folderItems) + BatchEntries - BatchFailed
        /\ \A k \in 1..Len(enc.out.folder) :
               k > Len(enc.in.folderItems) => ~EntryThrows(enc.out.folder[k].type)
        /\ enc.out.alert.number = Some(BatchFailed)

\* The part of C34 that holds: the failed entries are skipped, whatever was
\* generated is added, and the handler runs to its end.
C34_FailedEntriesSkipped ==
    lastOp = "addItems" =>
        /\ Len(enc.out.folder) = Len(enc.in.folderItems) + BatchEntries - BatchFailed
        /\ \A k \in 1..Len(enc.out.folder) :
               k > Len(enc.in.folderItems) => ~EntryThrows(enc.out.folder[k].type)
        /\ enc.out.consoleErrors = BatchFailed

\* Four entries failed: the folder is as it was, and the alert carries no
\* number at all.
C34_AllFailedReached ==
    /\ BatchWithFailure
    /\ BatchFailed = 4
    /\ enc.out.folder = enc.in.folderItems
    /\ enc.out.alert = [text |-> "no code could be generated", number |-> None]

\* Without a failure the alert tells how many codes were added.
C34_AddedReached ==
    /\ lastOp = "addItems"
    /\ BatchEntries = 4
    /\ Len(enc.in.folderItems) = 1
    /\ Len(enc.out.folder) = 5
    /\ enc.out.alert = [text |-> "added", number |-> Some(4)]

====
